---------------------------- MODULE Spec2Model ----------------------------
(***************************************************************************)
(* A model of gimli-crypto: the Gimli permutation (portable, SSE2 and NEON *)
(* back-ends), the sponge AEAD aead/gimli24v1 and the sponge hash          *)
(* hash/gimli24v1 with its incremental Hasher.                             *)
(*                                                                         *)
(* A u32 is modelled at full width as the set of the positions (0..31) of  *)
(* its one bits, bit 0 being the least significant.  A u8 is a number in   *)
(* 0..255.  Rust arrays and slices are sequences: element i of the source  *)
(* is element i + 1 of the model.                                          *)
(***************************************************************************)
EXTENDS Integers, Sequences, FiniteSets, TLC

----------------------------------------------------------------------------
(* u32 and u8 arithmetic *)

Pow2(n) ==
    CASE n = 0 -> 1 [] n = 1 -> 2 [] n = 2 -> 4 [] n = 3 -> 8
      [] n = 4 -> 16 [] n = 5 -> 32 [] n = 6 -> 64 [] n = 7 -> 128
      [] n = 8 -> 256 [] n = 9 -> 512 [] n = 10 -> 1024 [] n = 11 -> 2048
      [] n = 12 -> 4096 [] n = 13 -> 8192 [] n = 14 -> 16384 [] n = 15 -> 32768

\* the positions of the one bits of the number n < 2^width
BitsOf(n, width) == {j \in 0..(width - 1) : (n \div Pow2(j)) % 2 = 1}

\* the u32 with high half hi and low half lo (0x9e377900 is U32(40503, 30976))
U32(hi, lo) == BitsOf(lo, 16) \cup {j + 16 : j \in BitsOf(hi, 16)}

\* the number whose one bits are at the positions in bits (all below 8)
U8Of(bits) ==
    (IF 0 \in bits THEN 1 ELSE 0) + (IF 1 \in bits THEN 2 ELSE 0)
  + (IF 2 \in bits THEN 4 ELSE 0) + (IF 3 \in bits THEN 8 ELSE 0)
  + (IF 4 \in bits THEN 16 ELSE 0) + (IF 5 \in bits THEN 32 ELSE 0)
  + (IF 6 \in bits THEN 64 ELSE 0) + (IF 7 \in bits THEN 128 ELSE 0)

XOR(a, b) == (a \ b) \cup (b \ a)
AND(a, b) == a \cap b
OR(a, b) == a \cup b
SHL(a, n) == {j + n : j \in {i \in a : i + n < 32}}
SHR(a, n) == {j - n : j \in {i \in a : i >= n}}
rotate_left(a, n) == {(j + n) % 32 : j \in a}

\* a ^ b on u8
Xor8(a, b) == U8Of(XOR(BitsOf(a, 8), BitsOf(b, 8)))

\* `let s = v; F(s)`: F applied to the value of v, which is computed first
Then(v, F(_)) == CHOOSE out \in {F(s) : s \in {v}} : TRUE

\* `for i in lo..hi { acc = Body(acc, i) }`: the iterations lo..mid, then the
\* iterations mid..hi
ForRange(acc, lo, hi, Body(_, _)) ==
    LET RECURSIVE Run(_, _, _)
        Run(a, l, h) ==
            IF h <= l THEN a
            ELSE IF h = l + 1 THEN Body(a, l)
            ELSE Then(Run(a, l, (l + h) \div 2), LAMBDA m : Run(m, (l + h) \div 2, h))
    IN  Run(acc, lo, hi)

----------------------------------------------------------------------------
(* lib.rs, gimli.rs: constants and the State *)

STATE_SIZE == 48
NONCE_SIZE == 16
KEY_SIZE == 32
TAG_SIZE == 16
RATE == 16
STATE_LAST_BYTE == STATE_SIZE - 1
HASH_SIZE == 32
ROUNDS == 24
ROUND_CONSTANT == U32(40503, 30976)

\* the build targets: x86_64 (little-endian, SSE2 back-end), a little-endian
\* target without a hand-written back-end, and a big-endian one
Targets ==
    { [arch |-> "x86_64", endian |-> "little"],
      [arch |-> "aarch64", endian |-> "little"],
      [arch |-> "s390x", endian |-> "big"] }

\* State::new: [0; 12]
State_new == << {}, {}, {}, {}, {}, {}, {}, {}, {}, {}, {}, {} >>

\* the bit positions, within its word, of byte i of the transmuted byte view:
\* the view is the words' memory, so byte i % 4 of a word is its least
\* significant byte only where the target stores words little-endian
ByteShift(t, i) == IF t.endian = "little" THEN 8 * (i % 4) ELSE 8 * (3 - (i % 4))

\* state.as_bytes()[i]
as_bytes(t, st, i) ==
    LET w == st[(i \div 4) + 1]
        sh == ByteShift(t, i)
    IN  U8Of({j \in 0..7 : (j + sh) \in w})

\* state.as_bytes_mut()[i] = b
set_byte(t, st, i, b) ==
    LET w == st[(i \div 4) + 1]
        sh == ByteShift(t, i)
    IN  [st EXCEPT ![(i \div 4) + 1] =
            {j \in w : j < sh \/ j >= sh + 8} \cup {j + sh : j \in BitsOf(b, 8)}]

\* state.as_bytes_mut()[i] ^= b
xor_byte(t, st, i, b) == set_byte(t, st, i, Xor8(as_bytes(t, st, i), b))

\* &state.as_bytes()[..n]
bytes_upto(t, st, n) ==
    ForRange(<< >>, 0, n, LAMBDA out, i : Append(out, as_bytes(t, st, i)))

----------------------------------------------------------------------------
(* gimli/portable.rs *)

\* the body of `for column in 0..4`
SPBoxColumn(st, column) ==
    LET x == rotate_left(st[column + 1], 24)
        y == rotate_left(st[4 + column + 1], 9)
        z == st[8 + column + 1]
    IN  [st EXCEPT ![8 + column + 1] = XOR(x, XOR(SHL(z, 1), SHL(AND(y, z), 2))),
                   ![4 + column + 1] = XOR(y, XOR(x, SHL(OR(x, z), 1))),
                   ![column + 1] = XOR(z, XOR(y, SHL(AND(x, y), 3)))]

\* state.0.swap(i, j)
swap(st, i, j) == [st EXCEPT ![i + 1] = st[j + 1], ![j + 1] = st[i + 1]]

\* PortableRound with the round constant XORed into word 0 before the swaps
PortableRound_ConstantFirst(st, round) ==
    LET s1 == SPBoxColumn(SPBoxColumn(SPBoxColumn(SPBoxColumn(st, 0), 1), 2), 3)
        s2 == IF round % 4 = 0
              THEN [s1 EXCEPT ![1] = XOR(s1[1], OR(ROUND_CONSTANT, BitsOf(round, 8)))]
              ELSE s1
        s3 == IF round % 4 = 0 THEN swap(swap(s2, 0, 1), 2, 3) ELSE s2
    IN  IF round % 4 = 2 THEN swap(swap(s3, 0, 2), 1, 3) ELSE s3

\* the body of `for round in (1..=ROUNDS).rev()`
PortableRound(st, round) ==
    LET s1 == SPBoxColumn(SPBoxColumn(SPBoxColumn(SPBoxColumn(st, 0), 1), 2), 3)
        s2 == IF round % 4 = 0 THEN swap(swap(s1, 0, 1), 2, 3) ELSE s1
        s3 == IF round % 4 = 2 THEN swap(swap(s2, 0, 2), 1, 3) ELSE s2
    IN  IF round % 4 = 0
        THEN [s3 EXCEPT ![1] = XOR(s3[1], OR(ROUND_CONSTANT, BitsOf(round, 8)))]
        ELSE s3

\* portable::gimli: the rounds ROUNDS, ROUNDS - 1, ..., 1
gimli_portable(st) ==
    ForRange(st, 0, ROUNDS, LAMBDA s, j : PortableRound(s, ROUNDS - j))

----------------------------------------------------------------------------
(* gimli/sse2.rs and gimli/neon.rs.  A 128-bit register is the sequence of *)
(* its four u32 lanes, lane 0 first.                                       *)

Lanes2(Op(_, _), a, b) == << Op(a[1], b[1]), Op(a[2], b[2]), Op(a[3], b[3]), Op(a[4], b[4]) >>
LanesN(Op(_, _), a, n) == << Op(a[1], n), Op(a[2], n), Op(a[3], n), Op(a[4], n) >>

\* _mm_loadu_si128(state.0.as_ptr().add(k)), vld1q_u32(state.0.as_ptr().add(k))
load(st, k) == << st[k + 1], st[k + 2], st[k + 3], st[k + 4] >>

\* the three stores at the end of both SIMD back-ends
store(rows) == rows.row0 \o rows.row1 \o rows.row2

_mm_or_si128(a, b) == Lanes2(OR, a, b)
_mm_xor_si128(a, b) == Lanes2(XOR, a, b)
_mm_and_si128(a, b) == Lanes2(AND, a, b)
_mm_slli_epi32(a, n) == LanesN(SHL, a, n)
_mm_srli_epi32(a, n) == LanesN(SHR, a, n)
\* _mm_shuffle_epi32 with the two high bits of imm taken for lane 0
_mm_shuffle_epi32_HighFirst(a, imm) ==
    << a[((imm \div 64) % 4) + 1], a[((imm \div 16) % 4) + 1],
       a[((imm \div 4) % 4) + 1], a[(imm % 4) + 1] >>

\* lane i of the result is lane (imm >> 2i) & 3 of a
_mm_shuffle_epi32(a, imm) ==
    << a[(imm % 4) + 1], a[((imm \div 4) % 4) + 1],
       a[((imm \div 16) % 4) + 1], a[((imm \div 64) % 4) + 1] >>
\* _mm_set_epi32 with its first argument taken for lane 0
_mm_set_epi32_FirstIsLane0(e3, e2, e1, e0) == << e3, e2, e1, e0 >>

\* the last argument is lane 0
_mm_set_epi32(e3, e2, e1, e0) == << e0, e1, e2, e3 >>

\* sse2.rs, the body of `for round in (1..=ROUNDS).rev()`
Sse2Round(rows, round) ==
    LET x == _mm_or_si128(_mm_slli_epi32(rows.row0, 24), _mm_srli_epi32(rows.row0, 8))
        y == _mm_or_si128(_mm_slli_epi32(rows.row1, 9), _mm_srli_epi32(rows.row1, 23))
        z == rows.row2
        row2 == _mm_xor_si128(x,
                    _mm_xor_si128(_mm_slli_epi32(z, 1),
                                  _mm_slli_epi32(_mm_and_si128(y, z), 2)))
        row1 == _mm_xor_si128(_mm_xor_si128(y, x), _mm_slli_epi32(_mm_or_si128(x, z), 1))
        row0 == _mm_xor_si128(_mm_xor_si128(z, y), _mm_slli_epi32(_mm_and_si128(x, y), 3))
        constant == OR(ROUND_CONSTANT, BitsOf(round, 8))
        const_vec == _mm_set_epi32({}, {}, {}, constant)
        row0a == IF round % 4 = 0
                 THEN _mm_xor_si128(_mm_shuffle_epi32(row0, 177), const_vec)
                 ELSE row0
        row0b == IF round % 4 = 2 THEN _mm_shuffle_epi32(row0a, 78) ELSE row0a
    IN  [row0 |-> row0b, row1 |-> row1, row2 |-> row2]

vorrq_u32(a, b) == Lanes2(OR, a, b)
veorq_u32(a, b) == Lanes2(XOR, a, b)
vandq_u32(a, b) == Lanes2(AND, a, b)
vshlq_n_u32(a, n) == LanesN(SHL, a, n)
vshrq_n_u32(a, n) == LanesN(SHR, a, n)
\* the u32 lanes of each 64-bit half, reversed
vrev64q_u32(a) == << a[2], a[1], a[4], a[3] >>
\* the four lanes of a followed by b, from lane n on
vextq_u32(a, b, n) == SubSeq(a \o b, n + 1, n + 4)
vdupq_n_u32(w) == << w, w, w, w >>
vsetq_lane_u32(w, a, lane) == [a EXCEPT ![lane + 1] = w]

\* neon.rs, the body of `for round in (1..=ROUNDS).rev()`
NeonRound(rows, round) ==
    LET x == vorrq_u32(vshlq_n_u32(rows.row0, 24), vshrq_n_u32(rows.row0, 8))
        y == vorrq_u32(vshlq_n_u32(rows.row1, 9), vshrq_n_u32(rows.row1, 23))
        z == rows.row2
        row2 == veorq_u32(x, veorq_u32(vshlq_n_u32(z, 1), vshlq_n_u32(vandq_u32(y, z), 2)))
        row1 == veorq_u32(veorq_u32(y, x), vshlq_n_u32(vorrq_u32(x, z), 1))
        row0 == veorq_u32(veorq_u32(z, y), vshlq_n_u32(vandq_u32(x, y), 3))
        row0a == IF round % 4 = 0 THEN vrev64q_u32(row0) ELSE row0
        row0b == IF round % 4 = 2 THEN vextq_u32(row0a, row0a, 2) ELSE row0a
        constant == OR(U32(40503, 30976), BitsOf(round, 8))
        const_vec == vsetq_lane_u32(constant, vdupq_n_u32({}), 0)
        row0c == IF round % 4 = 0 THEN veorq_u32(row0b, const_vec) ELSE row0b
    IN  [row0 |-> row0c, row1 |-> row1, row2 |-> row2]

\* the three loads at the start of both SIMD back-ends
load_rows(st) == [row0 |-> load(st, 0), row1 |-> load(st, 4), row2 |-> load(st, 8)]

\* sse2::gimli
gimli_sse2(st) ==
    store(ForRange(load_rows(st), 0, ROUNDS, LAMBDA r, j : Sse2Round(r, ROUNDS - j)))

\* neon::gimli
gimli_neon(st) ==
    store(ForRange(load_rows(st), 0, ROUNDS, LAMBDA r, j : NeonRound(r, ROUNDS - j)))

\* gimli.rs: the back-end is chosen by #[cfg(target_arch)]; gimli.rs declares
\* no `mod neon`, so every target but x86_64 runs the portable code
gimli(t, st) ==
    Then(st, LAMBDA s : IF t.arch = "x86_64" THEN gimli_sse2(s) ELSE gimli_portable(s))

----------------------------------------------------------------------------
(* byte-slice helpers *)

Min(a, b) == IF a < b THEN a ELSE b

\* for i in 0..n { state_bytes[i] ^= data[i] }
xor_bytes(t, st, data, n) ==
    ForRange(st, 0, n, LAMBDA s, i : xor_byte(t, s, i, data[i + 1]))

\* state_bytes[off..off + n].copy_from_slice(data)
copy_from_slice(t, st, off, data, n) ==
    ForRange(st, 0, n, LAMBDA s, i : set_byte(t, s, off + i, data[i + 1]))

\* chunk number k (k = 0, 1, ...) of data.chunks_exact(RATE)
Chunk(data, k) == SubSeq(data, RATE * k + 1, RATE * (k + 1))

\* the number of chunks of data.chunks_exact(RATE)
NumChunks(data) == Len(data) \div RATE

\* iter.remainder()
Remainder(data) == SubSeq(data, RATE * NumChunks(data) + 1, Len(data))

----------------------------------------------------------------------------
(* aead_impl.rs *)

\* initialize that loads only the first 16 bytes of the key
initialize_HalfKey(t, key, nonce) ==
    Then(copy_from_slice(t, State_new, 0, nonce, 16),
      LAMBDA s1 : Then(copy_from_slice(t, s1, 16, key, 16),
        LAMBDA s2 : gimli(t, s2)))

initialize(t, key, nonce) ==
    Then(copy_from_slice(t, State_new, 0, nonce, 16),
      LAMBDA s1 : Then(copy_from_slice(t, s1, 16, key, 32),
        LAMBDA s2 : gimli(t, s2)))

\* process_aad, the body of `for chunk in iter.by_ref()`
AadBlock(t, st, chunk) ==
    Then(xor_bytes(t, st, chunk, RATE), LAMBDA s : gimli(t, s))

process_aad(t, st, associated_data) ==
    LET remainder == Remainder(associated_data)
    IN  Then(ForRange(st, 0, NumChunks(associated_data),
                      LAMBDA s, k : AadBlock(t, s, Chunk(associated_data, k))),
          LAMBDA s0 : Then(xor_bytes(t, s0, remainder, Len(remainder)),
            LAMBDA s1 : Then(xor_byte(t, s1, Len(remainder), 1),
              LAMBDA s2 : Then(xor_byte(t, s2, STATE_LAST_BYTE, 1),
                LAMBDA s3 : gimli(t, s3)))))

\* encrypt_in_place, one chunk of n bytes: the bytes are XORed into the state
\* and the chunk is overwritten with the first n state bytes; p is the state
\* and the buffer written so far
EncryptChunk(t, p, chunk, n) ==
    Then(xor_bytes(t, p.state, chunk, n),
         LAMBDA s : [state |-> s, buffer |-> p.buffer \o bytes_upto(t, s, n)])

\* EncryptBlock that copies the chunk out of the state after the call of gimli
EncryptBlock_CopiesAfterPermute(t, p, chunk) ==
    Then(xor_bytes(t, p.state, chunk, RATE),
         LAMBDA a : Then(gimli(t, a),
           LAMBDA s : [state |-> s, buffer |-> p.buffer \o bytes_upto(t, s, RATE)]))

\* encrypt_in_place, the body of `for chunk in &mut iter`
EncryptBlock(t, p, chunk) ==
    Then(EncryptChunk(t, p, chunk, RATE),
         LAMBDA c : [state |-> gimli(t, c.state), buffer |-> c.buffer])

\* encrypt_in_place: the buffer and the tag it returns, and the local state
\* as it is when the function returns
encrypt_in_place(t, key, nonce, associated_data, buffer) ==
    LET remainder == Remainder(buffer)
    IN  Then(initialize(t, key, nonce),
          LAMBDA s0 : Then(process_aad(t, s0, associated_data),
            LAMBDA s1 : Then(ForRange([state |-> s1, buffer |-> << >>], 0, NumChunks(buffer),
                                      LAMBDA p, k : EncryptBlock(t, p, Chunk(buffer, k))),
              LAMBDA p : Then(EncryptChunk(t, p, remainder, Len(remainder)),
                LAMBDA c : Then(xor_byte(t, c.state, Len(remainder), 1),
                  LAMBDA s2 : Then(xor_byte(t, s2, STATE_LAST_BYTE, 1),
                    LAMBDA s3 : Then(gimli(t, s3),
                      LAMBDA s4 : [buffer |-> c.buffer,
                                   tag |-> bytes_upto(t, s4, TAG_SIZE),
                                   state |-> s4])))))))

\* DecryptChunk without `state_bytes[i] = ciphertext_byte`
DecryptChunk_StateKept(t, p, chunk, n) ==
    ForRange(p, 0, n,
        LAMBDA q, i : [state |-> q.state,
                       buffer |-> Append(q.buffer,
                                         Xor8(as_bytes(t, q.state, i), chunk[i + 1]))])

\* decrypt_in_place, one chunk of n bytes: `let ciphertext_byte = chunk[i];
\* chunk[i] = state_bytes[i] ^ ciphertext_byte; state_bytes[i] =
\* ciphertext_byte`, for i in 0..n
DecryptChunk(t, p, chunk, n) ==
    ForRange(p, 0, n,
        LAMBDA q, i : [state |-> set_byte(t, q.state, i, chunk[i + 1]),
                       buffer |-> Append(q.buffer,
                                         Xor8(as_bytes(t, q.state, i), chunk[i + 1]))])

\* decrypt_in_place, the body of `for chunk in &mut iter`
DecryptBlock(t, p, chunk) ==
    Then(DecryptChunk(t, p, chunk, RATE),
         LAMBDA c : [state |-> gimli(t, c.state), buffer |-> c.buffer])

\* subtle: u8::ct_eq, 1 if a = b and 0 otherwise
ct_eq_u8(a, b) == IF Xor8(a, b) = 0 THEN 1 ELSE 0

\* ct_eq that leaves the last byte out of the comparison
ct_eq_FirstBytes(a, b) ==
    IF Len(a) # Len(b) THEN 0
    ELSE ForRange(1, 0, Len(a) - 1,
                  LAMBDA x, i : IF x = 1 /\ ct_eq_u8(a[i + 1], b[i + 1]) = 1 THEN 1 ELSE 0)

\* subtle: <[u8]>::ct_eq: 0 at once if the lengths differ; otherwise x = 1 and
\* x &= a[i].ct_eq(&b[i]) for every i
ct_eq(a, b) ==
    IF Len(a) # Len(b) THEN 0
    ELSE ForRange(1, 0, Len(a),
                  LAMBDA x, i : IF x = 1 /\ ct_eq_u8(a[i + 1], b[i + 1]) = 1 THEN 1 ELSE 0)

\* `if computed_tag.ct_eq(tag).into() { Ok(()) } else { Err(AuthenticationFailed) }`
verify(computed_tag, tag) ==
    IF ct_eq(computed_tag, tag) = 1 THEN "Ok" ELSE "AuthenticationFailed"

\* decrypt_in_place that hands the ciphertext back when the tags differ
decrypt_in_place_RestoresOnFailure(t, key, nonce, associated_data, buffer, tag) ==
    LET remainder == Remainder(buffer)
    IN  Then(initialize(t, key, nonce),
          LAMBDA s0 : Then(process_aad(t, s0, associated_data),
            LAMBDA s1 : Then(ForRange([state |-> s1, buffer |-> << >>], 0, NumChunks(buffer),
                                      LAMBDA p, k : DecryptBlock(t, p, Chunk(buffer, k))),
              LAMBDA p : Then(DecryptChunk(t, p, remainder, Len(remainder)),
                LAMBDA c : Then(xor_byte(t, c.state, Len(remainder), 1),
                  LAMBDA s2 : Then(xor_byte(t, s2, STATE_LAST_BYTE, 1),
                    LAMBDA s3 : Then(gimli(t, s3),
                      LAMBDA s4 : [buffer |-> IF verify(bytes_upto(t, s4, TAG_SIZE), tag) = "Ok"
                                              THEN c.buffer ELSE buffer,
                                   result |-> verify(bytes_upto(t, s4, TAG_SIZE), tag),
                                   state |-> s4])))))))

\* decrypt_in_place: the buffer, the result, and the local state as it is
\* when the tag is compared
decrypt_in_place(t, key, nonce, associated_data, buffer, tag) ==
    LET remainder == Remainder(buffer)
    IN  Then(initialize(t, key, nonce),
          LAMBDA s0 : Then(process_aad(t, s0, associated_data),
            LAMBDA s1 : Then(ForRange([state |-> s1, buffer |-> << >>], 0, NumChunks(buffer),
                                      LAMBDA p, k : DecryptBlock(t, p, Chunk(buffer, k))),
              LAMBDA p : Then(DecryptChunk(t, p, remainder, Len(remainder)),
                LAMBDA c : Then(xor_byte(t, c.state, Len(remainder), 1),
                  LAMBDA s2 : Then(xor_byte(t, s2, STATE_LAST_BYTE, 1),
                    LAMBDA s3 : Then(gimli(t, s3),
                      LAMBDA s4 : [buffer |-> c.buffer,
                                   result |-> verify(bytes_upto(t, s4, TAG_SIZE), tag),
                                   state |-> s4])))))))

----------------------------------------------------------------------------
(* hash_impl.rs *)

DOMAIN_XOF == 31
PADDING_MARKER == 128

\* hash, the body of `for chunk in &mut iter`
HashBlock(t, st, chunk) ==
    Then(xor_bytes(t, st, chunk, RATE), LAMBDA s : gimli(t, s))

\* hash: the digest, and the local state as it is when the function returns
hash_run(t, input) ==
    LET remainder == Remainder(input)
    IN  Then(ForRange(State_new, 0, NumChunks(input),
                      LAMBDA s, k : HashBlock(t, s, Chunk(input, k))),
          LAMBDA s0 : Then(xor_bytes(t, s0, remainder, Len(remainder)),
            LAMBDA s1 : Then(xor_byte(t, s1, Len(remainder), DOMAIN_XOF),
              LAMBDA s2 : Then(xor_byte(t, s2, RATE - 1, PADDING_MARKER),
                LAMBDA s3 : Then(gimli(t, s3),
                  LAMBDA a : Then(gimli(t, a),
                    LAMBDA b : [output |-> bytes_upto(t, a, RATE) \o bytes_upto(t, b, RATE),
                                state |-> b]))))))

hash(t, input) == hash_run(t, input).output

\* Hasher::new
Hasher_new ==
    [state |-> State_new,
     buffer |-> << 0, 0, 0, 0, 0, 0, 0, 0, 0, 0, 0, 0, 0, 0, 0, 0 >>,
     buffer_len |-> 0]

\* CopyIntoBuffer that copies to the start of the buffer
CopyIntoBuffer_AtStart(buffer, at, data) ==
    data \o SubSeq(buffer, Len(data) + 1, RATE)

\* self.buffer[at..at + Len(data)].copy_from_slice(data)
CopyIntoBuffer(buffer, at, data) ==
    SubSeq(buffer, 1, at) \o data \o SubSeq(buffer, at + Len(data) + 1, RATE)

\* UpdateStep that absorbs a full buffer only when more input arrives
UpdateStep_LazyAbsorb(t, u, data) ==
    LET h0 == IF u.hasher.buffer_len = RATE
              THEN [state |-> Then(xor_bytes(t, u.hasher.state, u.hasher.buffer, RATE),
                                   LAMBDA s : gimli(t, s)),
                    buffer |-> u.hasher.buffer, buffer_len |-> 0]
              ELSE u.hasher
        available == Min(Len(data) - u.pos, RATE - h0.buffer_len)
    IN  [hasher |-> [state |-> h0.state,
                     buffer |-> CopyIntoBuffer(h0.buffer, h0.buffer_len,
                                               SubSeq(data, u.pos + 1, u.pos + available)),
                     buffer_len |-> h0.buffer_len + available],
         pos |-> u.pos + available]

\* UpdateStep that absorbs a full buffer without calling gimli
UpdateStep_NoPermute(t, u, data) ==
    LET available == Min(Len(data) - u.pos, RATE - u.hasher.buffer_len)
        buffer == CopyIntoBuffer(u.hasher.buffer, u.hasher.buffer_len,
                                 SubSeq(data, u.pos + 1, u.pos + available))
        buffer_len == u.hasher.buffer_len + available
    IN  [hasher |-> IF buffer_len = RATE
                    THEN [state |-> xor_bytes(t, u.hasher.state, buffer, RATE),
                          buffer |-> buffer, buffer_len |-> 0]
                    ELSE [state |-> u.hasher.state, buffer |-> buffer,
                          buffer_len |-> buffer_len],
         pos |-> u.pos + available]

\* UpdateStep that copies one byte in every iteration
UpdateStep_ByteByByte(t, u, data) ==
    LET available == 1
        buffer == CopyIntoBuffer(u.hasher.buffer, u.hasher.buffer_len,
                                 SubSeq(data, u.pos + 1, u.pos + available))
        buffer_len == u.hasher.buffer_len + available
    IN  [hasher |-> IF buffer_len = RATE
                    THEN [state |-> Then(xor_bytes(t, u.hasher.state, buffer, RATE),
                                         LAMBDA s : gimli(t, s)),
                          buffer |-> buffer, buffer_len |-> 0]
                    ELSE [state |-> u.hasher.state, buffer |-> buffer,
                          buffer_len |-> buffer_len],
         pos |-> u.pos + available]

\* Hasher::update, the body of `while pos < data.len()`; u is self and pos
UpdateStep(t, u, data) ==
    LET available == Min(Len(data) - u.pos, RATE - u.hasher.buffer_len)
        buffer == CopyIntoBuffer(u.hasher.buffer, u.hasher.buffer_len,
                                 SubSeq(data, u.pos + 1, u.pos + available))
        buffer_len == u.hasher.buffer_len + available
    IN  [hasher |-> IF buffer_len = RATE
                    THEN [state |-> Then(xor_bytes(t, u.hasher.state, buffer, RATE),
                                         LAMBDA s : gimli(t, s)),
                          buffer |-> buffer, buffer_len |-> 0]
                    ELSE [state |-> u.hasher.state, buffer |-> buffer,
                          buffer_len |-> buffer_len],
         pos |-> u.pos + available]

\* Hasher::update: the loop runs while pos < data.len()
RECURSIVE UpdateLoop(_, _, _)
UpdateLoop(t, u, data) ==
    IF u.pos < Len(data)
    THEN Then(UpdateStep(t, u, data), LAMBDA v : UpdateLoop(t, v, data))
    ELSE u

\* Hasher::update
update(t, h, data) == UpdateLoop(t, [hasher |-> h, pos |-> 0], data).hasher

\* Hasher::finalize: the digest, and self as it is when the function returns
finalize_run(t, h) ==
    Then(xor_bytes(t, h.state, h.buffer, h.buffer_len),
      LAMBDA s1 : Then(xor_byte(t, s1, h.buffer_len, DOMAIN_XOF),
        LAMBDA s2 : Then(xor_byte(t, s2, RATE - 1, PADDING_MARKER),
          LAMBDA s3 : Then(gimli(t, s3),
            LAMBDA a : Then(gimli(t, a),
              LAMBDA b : [output |-> bytes_upto(t, a, RATE) \o bytes_upto(t, b, RATE),
                          self |-> [h EXCEPT !.state = b]])))))

finalize(t, h) == finalize_run(t, h).output

----------------------------------------------------------------------------
(* zeroize: what a destroyed object's memory holds when it is released *)

\* the 48 bytes of a State
StateBytes(t, st) == bytes_upto(t, st, STATE_SIZE)

\* gimli.rs:23, #[derive(Zeroize, ZeroizeOnDrop)]: drop zeroizes the words
drop_State(t, st) == StateBytes(t, State_new)

\* hash_impl.rs:113, #[derive(Clone)] only: dropping a Hasher drops its
\* fields; the State zeroizes itself, the buffer and buffer_len have no Drop
drop_Hasher(t, h) == drop_State(t, h.state) \o h.buffer \o << h.buffer_len >>

\* rustcrypto_aead.rs:14, #[derive(Zeroize, ZeroizeOnDrop)]: drop zeroizes key
drop_GimliAead(cipher) == ForRange(<< >>, 0, KEY_SIZE, LAMBDA out, i : Append(out, 0))

----------------------------------------------------------------------------
(* inputs *)

\* the largest seed of the generated permutation inputs
MaxSeed == 2
\* the longest associated data and the longest message given to the AEAD
MaxAdLen == 17
MaxMsgLen == 17
\* the longest chunk given to one Hasher::update call, and the number of
\* update calls made on one hasher
MaxChunk == 33
MaxUpdates == 3
\* the number of update calls made on a hasher and its clone together
MaxCloneUpdates == 2
\* the number of update calls made on a hasher that is followed step by step
MaxStepUpdates == 2

\* portable.rs:49-52, the input of the test vector of the Gimli specification
GoldenIn == <<
    U32(0, 0), U32(40503, 31162), U32(15470, 62330), U32(55974, 27974),
    U32(30941, 59172), U32(5909, 24858), U32(46412, 56110), U32(21380, 21862),
    U32(61883, 53192), U32(36851, 19034), U32(11818, 50466), U32(52322, 16422) >>

\* portable.rs:56-59, its expected output
GoldenOut == <<
    U32(47633, 51290), U32(37306, 53529), U32(14348, 59520), U32(53836, 11368),
    U32(16078, 65514), U32(10106, 37404), U32(20339, 41149), U32(55898, 40152),
    U32(33974, 29680), U32(13541, 12279), U32(40491, 61257), U32(62491, 47318) >>

\* sse2.rs:108-111, the input of test_gimli_sse2_matches_portable
MatchIn == <<
    U32(4660, 22136), U32(39612, 57072), U32(4369, 4369), U32(8738, 8738),
    U32(13107, 13107), U32(17476, 17476), U32(21845, 21845), U32(26214, 26214),
    U32(30583, 30583), U32(34952, 34952), U32(39321, 39321), U32(43690, 43690) >>

AllOnes == [i \in 1..12 |-> 0..31]

\* a state with three one bits in every word, at positions that depend on k
SeedState(k) ==
    [i \in 1..12 |-> {(7 * i + k) % 32, (11 * i + 3 * k + 5) % 32, (k * i + 31) % 32}]

PermInputs ==
    {GoldenIn, MatchIn, State_new, AllOnes} \cup {SeedState(k) : k \in 0..MaxSeed}

\* n bytes, all different for n <= 256
Ramp(first, step, n) == [i \in 1..n |-> (first + step * (i - 1)) % 256]

\* a key of 32 different bytes and a nonce of 16 different bytes
InputKey == Ramp(0, 1, KEY_SIZE)
InputNonce == Ramp(16, 5, NONCE_SIZE)

Lengths(max) == {0, RATE - 1, RATE, max}

AdInputs == {Ramp(160, 3, n) : n \in Lengths(MaxAdLen)}
MsgInputs == {Ramp(65, 7, n) : n \in Lengths(MaxMsgLen)}

\* hash_impl/tests.rs:37, "Speak words we can all understand!"
Speak == <<
    83, 112, 101, 97, 107, 32, 119, 111, 114, 100, 115, 32, 119, 101, 32, 99,
    97, 110, 32, 97, 108, 108, 32, 117, 110, 100, 101, 114, 115, 116, 97, 110,
    100, 33 >>

\* hash_impl/tests.rs:17, the digest of the empty input
DigestEmpty == <<
    176, 99, 75, 44, 11, 8, 42, 237, 197, 192, 162, 254, 78, 227, 173, 207,
    201, 137, 236, 5, 222, 111, 0, 173, 219, 4, 179, 170, 172, 39, 31, 103 >>

\* hash_impl/tests.rs:38, the digest of Speak
DigestSpeak == <<
    141, 212, 209, 50, 5, 155, 114, 248, 232, 73, 63, 154, 251, 134, 198, 216,
    98, 99, 231, 67, 159, 198, 76, 187, 54, 31, 203, 204, 248, 176, 18, 103 >>

ChunkLengths == {0, RATE - 1, RATE + 1, MaxChunk}

\* the lengths of the chunks fed to a hasher and to its clone
CloneChunks == {0, RATE - 1, RATE + 1}

\* bytes with bit number bit (bit 0 is the low bit of the first byte) flipped
FlipBit(bytes, bit) ==
    [bytes EXCEPT ![(bit \div 8) + 1] = Xor8(@, Pow2(bit % 8))]

\* the bits of an nbits-bit value that are flipped
FlipBits(nbits) == {b \in {0, nbits - 1} : b >= 0 /\ b < nbits}

----------------------------------------------------------------------------
(* the state *)

VARIABLES
    target,     \* the target the crate is built for
    \* the permutation run by the three back-ends side by side
    pin,        \* the State given to gimli
    pstate,     \* portable: state.0
    sse2,       \* sse2: row0, row1, row2
    neon,       \* neon: row0, row1, row2
    round,      \* the rounds left to run
    \* one AEAD exchange
    key, nonce, ad, buffer, tag,
    orig,       \* the plaintext that was encrypted
    phase,      \* "idle", "plain", "encrypted", "decrypted", "dropped"
    tampered,   \* what was changed after encryption: "none", "tag", ...
    result,     \* what decrypt_in_place returned
    computed,   \* decrypt_in_place: computed_tag
    \* one hasher, and one call of hash
    corpus,     \* the bytes the caller hashes
    hasher,     \* the Hasher: state, buffer, buffer_len
    fed,        \* the bytes given to update since new or reset
    chunks,     \* their lengths, call by call
    updates,    \* the number of update calls made
    was_reset,  \* the hasher was reset
    hphase,     \* "idle", "live", "finalized", "oneshot"
    input,      \* the argument of hash
    digest,     \* what finalize or hash returned
    \* the memory of the object destroyed last, as it is released
    released,
    \* a clone of the hasher
    twin,       \* the Hasher made by hasher.clone()
    fed2,       \* the bytes given to the hasher before the clone and to the twin after
    phase2,     \* "none", "live", "finalized"
    digest2,    \* what twin.finalize() returned
    \* one call followed step by step
    run,        \* the running call: function, position, local State, block index;
                \* for Hasher::update also pos (k), the iterations of its loop
                \* so far (n) and self as it was when the call was made (entry)
    log,        \* one record for each step made: the State before it, the State
                \* as written before gimli is called, the State after it
    \* a GimliHash: the hasher in its GimliHashCore, and
    block_buffer \* the block buffer of the CoreWrapper: its 32 bytes and pos

permVars == <<pin, pstate, sse2, neon, round>>
aeadVars == <<key, nonce, ad, buffer, tag, orig, phase, tampered, result, computed>>
hashVars == <<corpus, hasher, fed, chunks, updates, was_reset, hphase, input, digest>>
cloneVars == <<twin, fed2, phase2, digest2>>
stepVars == <<run, log>>
adapterVars == <<block_buffer>>
extVars == <<cloneVars, stepVars, adapterVars>>
vars == <<target, permVars, aeadVars, hashVars, released, extVars>>

NoRelease == [kind |-> "none", bytes |-> << >>]

PermIdle ==
    /\ pin = State_new /\ pstate = State_new
    /\ sse2 = load_rows(State_new) /\ neon = load_rows(State_new)
    /\ round = 0

AeadIdle ==
    /\ key = << >> /\ nonce = << >> /\ ad = << >> /\ buffer = << >> /\ tag = << >>
    /\ orig = << >> /\ phase = "idle" /\ tampered = "none" /\ result = "none"
    /\ computed = << >>

CloneIdle == twin = Hasher_new /\ fed2 = << >> /\ phase2 = "none" /\ digest2 = << >>

NoRun == [fn |-> "none", pc |-> "done", state |-> State_new, k |-> 0, data |-> << >>,
            n |-> 0, entry |-> Hasher_new]

StepIdle == run = NoRun /\ log = << >>

\* rustcrypto_hash.rs:25-31, 67: the buffer of a CoreWrapper<GimliHashCore>,
\* one block of BlockSize = 32 bytes, empty
BlockBuffer_default ==
    [buffer |-> [i \in 1..32 |-> 0], pos |-> 0]

AdapterIdle == block_buffer = BlockBuffer_default

ExtIdle == CloneIdle /\ StepIdle /\ AdapterIdle

HashIdle ==
    /\ corpus = << >> /\ hasher = Hasher_new /\ fed = << >> /\ chunks = << >>
    /\ updates = 0 /\ was_reset = FALSE /\ hphase = "idle" /\ input = << >>
    /\ digest = << >>

----------------------------------------------------------------------------
(* the permutation, round by round, on the three back-ends *)

InitPerm ==
    /\ target \in {t \in Targets : t.arch = "x86_64"}
    /\ pin \in PermInputs
    /\ pstate = pin
    /\ sse2 = load_rows(pin)
    /\ neon = load_rows(pin)
    /\ round = ROUNDS
    /\ AeadIdle /\ HashIdle
    /\ released = NoRelease
    /\ ExtIdle

\* one iteration of `for round in (1..=ROUNDS).rev()` in each back-end
GimliRound ==
    /\ round > 0
    /\ pstate' = PortableRound(pstate, round)
    /\ sse2' = Sse2Round(sse2, round)
    /\ neon' = NeonRound(neon, round)
    /\ round' = round - 1
    /\ UNCHANGED <<extVars, target, pin, aeadVars, hashVars, released>>

NextPerm == GimliRound

SpecPerm == InitPerm /\ [][NextPerm]_vars

----------------------------------------------------------------------------
(* one AEAD exchange: encrypt_in_place, a change in transit, decrypt_in_place *)

InitAead ==
    /\ target \in Targets
    /\ key = InputKey
    /\ nonce = InputNonce
    /\ ad \in AdInputs
    /\ orig \in MsgInputs
    /\ buffer = orig
    /\ tag = << >>
    /\ phase = "plain"
    /\ tampered = "none"
    /\ result = "none"
    /\ computed = << >>
    /\ PermIdle /\ HashIdle
    /\ released = NoRelease
    /\ ExtIdle

\* let tag = encrypt_in_place(&key, &nonce, &ad, &mut buffer)
Encrypt ==
    /\ phase = "plain"
    /\ \E e \in {encrypt_in_place(target, key, nonce, ad, buffer)} :
           /\ buffer' = e.buffer
           /\ tag' = e.tag
           /\ released' = [kind |-> "State", bytes |-> drop_State(target, e.state)]
    /\ phase' = "encrypted"
    /\ UNCHANGED <<extVars, target, permVars, key, nonce, ad, orig, tampered, result, computed,
                   hashVars>>

\* one bit of the tag, the ciphertext, the associated data, the nonce or the
\* key is flipped between encryption and decryption
Tamper ==
    /\ phase = "encrypted"
    /\ tampered = "none"
    /\ \/ \E b \in FlipBits(8 * TAG_SIZE) :
            /\ tag' = FlipBit(tag, b)
            /\ tampered' = "tag"
            /\ UNCHANGED <<buffer, ad, nonce, key>>
       \/ \E b \in FlipBits(8 * Len(buffer)) :
            /\ buffer' = FlipBit(buffer, b)
            /\ tampered' = "buffer"
            /\ UNCHANGED <<tag, ad, nonce, key>>
       \/ \E b \in FlipBits(8 * Len(ad)) :
            /\ ad' = FlipBit(ad, b)
            /\ tampered' = "ad"
            /\ UNCHANGED <<tag, buffer, nonce, key>>
       \/ \E b \in FlipBits(8 * NONCE_SIZE) :
            /\ nonce' = FlipBit(nonce, b)
            /\ tampered' = "nonce"
            /\ UNCHANGED <<tag, buffer, ad, key>>
       \/ \E b \in FlipBits(8 * KEY_SIZE) :
            /\ key' = FlipBit(key, b)
            /\ tampered' = "key"
            /\ UNCHANGED <<tag, buffer, ad, nonce>>
    /\ UNCHANGED <<extVars, target, permVars, orig, phase, result, computed, hashVars, released>>

\* let result = decrypt_in_place(&key, &nonce, &ad, &mut buffer, &tag)
Decrypt ==
    /\ phase = "encrypted"
    /\ \E d \in {decrypt_in_place(target, key, nonce, ad, buffer, tag)} :
           /\ buffer' = d.buffer
           /\ result' = d.result
           /\ computed' = bytes_upto(target, d.state, TAG_SIZE)
           /\ released' = [kind |-> "State", bytes |-> drop_State(target, d.state)]
    /\ phase' = "decrypted"
    /\ UNCHANGED <<extVars, target, permVars, key, nonce, ad, tag, orig, tampered, hashVars>>

\* the GimliAead that holds the key goes out of scope
DropCipher ==
    /\ phase = "decrypted"
    /\ phase' = "dropped"
    /\ released' = [kind |-> "GimliAead", bytes |-> drop_GimliAead([key |-> key])]
    /\ UNCHANGED <<extVars, target, permVars, key, nonce, ad, buffer, tag, orig, tampered,
                   result, computed, hashVars>>

NextAead == Encrypt \/ Tamper \/ Decrypt \/ DropCipher

SpecAead == InitAead /\ [][NextAead]_vars

----------------------------------------------------------------------------
(* one Hasher (new, update, reset, finalize) and calls of hash *)

InitHash ==
    /\ target \in Targets
    /\ corpus = Speak
    /\ hasher = Hasher_new
    /\ fed = << >>
    /\ chunks = << >>
    /\ updates = 0
    /\ was_reset = FALSE
    /\ hphase = "live"
    /\ input = << >>
    /\ digest = << >>
    /\ PermIdle /\ AeadIdle
    /\ released = NoRelease
    /\ ExtIdle

\* hasher.update(data), data being the next n bytes of the corpus
Update ==
    /\ hphase = "live"
    /\ updates < MaxUpdates
    /\ \E n \in ChunkLengths :
        /\ Len(fed) + n <= Len(corpus)
        /\ LET data == SubSeq(corpus, Len(fed) + 1, Len(fed) + n)
           IN  /\ hasher' = update(target, hasher, data)
               /\ fed' = fed \o data
        /\ chunks' = Append(chunks, n)
    /\ updates' = updates + 1
    /\ UNCHANGED <<extVars, target, permVars, aeadVars, corpus, was_reset, hphase, input, digest,
                   released>>

\* Reset that empties the buffer and leaves the sponge state as it is
Reset_KeepsState ==
    /\ hphase = "live"
    /\ ~was_reset
    /\ hasher' = [hasher EXCEPT !.buffer = Hasher_new.buffer, !.buffer_len = 0]
    /\ released' = [kind |-> "Hasher", bytes |-> drop_Hasher(target, hasher)]
    /\ fed' = << >>
    /\ chunks' = << >>
    /\ was_reset' = TRUE
    /\ UNCHANGED <<extVars, target, permVars, aeadVars, corpus, updates, hphase, input, digest>>

\* rustcrypto_hash.rs:57-62, Reset for GimliHashCore: self.hasher =
\* GimliHasher::new(); the assignment drops the old hasher
Reset ==
    /\ hphase = "live"
    /\ ~was_reset
    /\ hasher' = Hasher_new
    /\ released' = [kind |-> "Hasher", bytes |-> drop_Hasher(target, hasher)]
    /\ fed' = << >>
    /\ chunks' = << >>
    /\ was_reset' = TRUE
    /\ UNCHANGED <<extVars, target, permVars, aeadVars, corpus, updates, hphase, input, digest>>

\* let digest = hasher.finalize(), which consumes the hasher
Finalize ==
    /\ hphase = "live"
    /\ \E f \in {finalize_run(target, hasher)} :
           /\ digest' = f.output
           /\ released' = [kind |-> "Hasher", bytes |-> drop_Hasher(target, f.self)]
    /\ hphase' = "finalized"
    /\ UNCHANGED <<extVars, target, permVars, aeadVars, corpus, hasher, fed, chunks, updates,
                   was_reset, input>>

\* let digest = hash(input), input being the first n bytes of the corpus
HashCall ==
    /\ hphase = "live"
    /\ updates = 0
    /\ ~was_reset
    /\ \E n \in 0..Len(corpus) :
        /\ input' = SubSeq(corpus, 1, n)
        /\ \E r \in {hash_run(target, SubSeq(corpus, 1, n))} :
               /\ digest' = r.output
               /\ released' = [kind |-> "State", bytes |-> drop_State(target, r.state)]
    /\ hphase' = "oneshot"
    /\ UNCHANGED <<extVars, target, permVars, aeadVars, corpus, hasher, fed, chunks, updates,
                   was_reset>>

NextHash == Update \/ Reset \/ Finalize \/ HashCall

SpecHash == InitHash /\ [][NextHash]_vars

----------------------------------------------------------------------------
(* a Hasher and its clone *)

InitClone == InitHash

\* Clone that copies the sponge state and starts with an empty buffer
Clone_FreshBuffer ==
    /\ hphase = "live"
    /\ phase2 = "none"
    /\ twin' = [Hasher_new EXCEPT !.state = hasher.state]
    /\ fed2' = fed
    /\ phase2' = "live"
    /\ UNCHANGED <<target, permVars, aeadVars, hashVars, released, digest2, stepVars, adapterVars>>

\* hash_impl.rs:113, #[derive(Clone)]: let mut twin = hasher.clone(), which
\* clones the State (gimli.rs:23, a copy of the twelve words) and copies the
\* buffer and buffer_len
Clone ==
    /\ hphase = "live"
    /\ phase2 = "none"
    /\ twin' = [state |-> hasher.state, buffer |-> hasher.buffer,
                buffer_len |-> hasher.buffer_len]
    /\ fed2' = fed
    /\ phase2' = "live"
    /\ UNCHANGED <<target, permVars, aeadVars, hashVars, released, digest2, stepVars, adapterVars>>

\* hasher.update(data) on the hasher that is cloned
UpdateFirst ==
    /\ hphase = "live"
    /\ updates < MaxCloneUpdates
    /\ \E n \in CloneChunks :
        /\ Len(fed) + n <= Len(corpus)
        /\ LET data == SubSeq(corpus, Len(fed) + 1, Len(fed) + n)
           IN  /\ hasher' = update(target, hasher, data)
               /\ fed' = fed \o data
        /\ chunks' = Append(chunks, n)
    /\ updates' = updates + 1
    /\ UNCHANGED <<extVars, target, permVars, aeadVars, corpus, was_reset, hphase, input,
                   digest, released>>

\* twin.update(data), data being the next n bytes of the corpus
UpdateTwin ==
    /\ phase2 = "live"
    /\ updates < MaxCloneUpdates
    /\ \E n \in CloneChunks :
        /\ Len(fed2) + n <= Len(corpus)
        /\ LET data == SubSeq(corpus, Len(fed2) + 1, Len(fed2) + n)
           IN  /\ twin' = update(target, twin, data)
               /\ fed2' = fed2 \o data
    /\ updates' = updates + 1
    /\ UNCHANGED <<target, permVars, aeadVars, corpus, hasher, fed, chunks, was_reset,
                   hphase, input, digest, released, phase2, digest2,
                   stepVars, adapterVars>>

\* let digest2 = twin.finalize(), which consumes the twin
FinalizeTwin ==
    /\ phase2 = "live"
    /\ \E f \in {finalize_run(target, twin)} :
           /\ digest2' = f.output
           /\ released' = [kind |-> "Hasher", bytes |-> drop_Hasher(target, f.self)]
    /\ phase2' = "finalized"
    /\ UNCHANGED <<target, permVars, aeadVars, hashVars, twin, fed2, stepVars, adapterVars>>

NextClone == UpdateFirst \/ Clone \/ UpdateTwin \/ Finalize \/ FinalizeTwin

SpecClone == InitClone /\ [][NextClone]_vars

----------------------------------------------------------------------------
(* one call followed step by step: every step is the code up to and        *)
(* including one call of gimli                                             *)

\* the record of one step: the State when the step starts (start), the State
\* as the step has written it when it calls gimli (absorbed), the State after
\* the step, the indices of the state bytes the step writes (wrote), the index
\* of the byte the separation byte is XORed into (sep; -1 if there is none),
\* the bytes the step copies out of the state before it calls gimli (out) and
\* after (after)
StepRecord(fn, step, start, absorbed, state, wrote, sep, out, after) ==
    [fn |-> fn, step |-> step, start |-> start, absorbed |-> absorbed, state |-> state,
     wrote |-> wrote, sep |-> sep, out |-> out, after |-> after]

\* buffer with the bytes of chunk number k replaced by bytes
ReplaceChunk(buf, k, bytes) ==
    SubSeq(buf, 1, RATE * k) \o bytes \o SubSeq(buf, RATE * k + Len(bytes) + 1, Len(buf))

\* aead_impl.rs:43-49, initialize before its call of gimli, with the key
\* copied to state_bytes[..32] and the nonce to state_bytes[32..]
load_nonce_key_KeyFirst(t, k, n) ==
    Then(copy_from_slice(t, State_new, 0, k, 32),
         LAMBDA s1 : copy_from_slice(t, s1, 32, n, 16))

\* aead_impl.rs:43-49, initialize before its call of gimli
load_nonce_key(t, k, n) ==
    Then(copy_from_slice(t, State_new, 0, n, 16),
         LAMBDA s1 : copy_from_slice(t, s1, 16, k, 32))

\* the lengths of the inputs given to hash
HashLengths == {0, RATE - 1, RATE, RATE + 1, 2 * RATE, Len(Speak)}

\* a message is encrypted, then the ciphertext and the tag are decrypted
StartAead ==
    /\ key = InputKey
    /\ nonce = InputNonce
    /\ ad \in AdInputs
    /\ orig \in MsgInputs
    /\ buffer = orig
    /\ tag = << >>
    /\ phase = "plain"
    /\ tampered = "none"
    /\ result = "none"
    /\ computed = << >>
    /\ run = [fn |-> "encrypt", pc |-> "init", state |-> State_new, k |-> 0, data |-> << >>,
            n |-> 0, entry |-> Hasher_new]
    /\ HashIdle

\* hash(input) is called: hash_impl.rs:61, let mut state = State::new()
StartHash ==
    /\ corpus = Speak
    /\ input \in {SubSeq(Speak, 1, n) : n \in HashLengths}
    /\ hasher = Hasher_new /\ fed = << >> /\ chunks = << >> /\ updates = 0
    /\ was_reset = FALSE /\ hphase = "live" /\ digest = << >>
    /\ run = [fn |-> "hash", pc |-> "absorb", state |-> State_new, k |-> 0, data |-> << >>,
            n |-> 0, entry |-> Hasher_new]
    /\ AeadIdle

\* hash_impl.rs:122-128, let mut hasher = Hasher::new()
StartHasher ==
    /\ corpus = Speak
    /\ input = << >>
    /\ hasher = Hasher_new /\ fed = << >> /\ chunks = << >> /\ updates = 0
    /\ was_reset = FALSE /\ hphase = "live" /\ digest = << >>
    /\ run = [fn |-> "hasher", pc |-> "idle", state |-> State_new, k |-> 0, data |-> << >>,
            n |-> 0, entry |-> Hasher_new]
    /\ AeadIdle

InitSteps ==
    /\ target \in Targets
    /\ StartAead \/ StartHash \/ StartHasher
    /\ log = << >>
    /\ PermIdle /\ CloneIdle /\ AdapterIdle
    /\ released = NoRelease

\* aead_impl.rs:42-55, initialize
StepInitialize ==
    /\ run.fn \in {"encrypt", "decrypt"}
    /\ run.pc = "init"
    /\ \E a \in {load_nonce_key(target, key, nonce)} :
       \E s \in {gimli(target, a)} :
           /\ run' = [run EXCEPT !.pc = "ad", !.state = s, !.k = 0]
           /\ log' = Append(log, StepRecord(run.fn, "init", State_new, a, s,
                                            0..(STATE_SIZE - 1), -1, << >>, << >>))
    /\ UNCHANGED <<target, permVars, aeadVars, hashVars, cloneVars, adapterVars, released>>

\* aead_impl.rs:62-68, process_aad, one iteration of `for chunk in iter.by_ref()`
StepAadBlock ==
    /\ run.fn \in {"encrypt", "decrypt"}
    /\ run.pc = "ad"
    /\ run.k < NumChunks(ad)
    /\ \E a \in {xor_bytes(target, run.state, Chunk(ad, run.k), RATE)} :
       \E s \in {gimli(target, a)} :
           /\ run' = [run EXCEPT !.state = s, !.k = run.k + 1]
           /\ log' = Append(log, StepRecord(run.fn, "ad_block", run.state, a, s,
                                            0..(RATE - 1), -1, << >>, << >>))
    /\ UNCHANGED <<target, permVars, aeadVars, hashVars, cloneVars, adapterVars, released>>

\* process_aad that returns after the full blocks when there is no remainder
StepAadFinal_SkipsEmpty ==
    /\ run.fn \in {"encrypt", "decrypt"}
    /\ run.pc = "ad"
    /\ run.k = NumChunks(ad)
    /\ LET remainder == Remainder(ad)
       IN  IF remainder = << >>
           THEN /\ run' = [run EXCEPT !.pc = "msg", !.k = 0]
                /\ log' = log
           ELSE \E a \in {Then(xor_bytes(target, run.state, remainder, Len(remainder)),
                            LAMBDA s1 : Then(xor_byte(target, s1, Len(remainder), 1),
                              LAMBDA s2 : xor_byte(target, s2, STATE_LAST_BYTE, 1)))} :
                \E s \in {gimli(target, a)} :
                    /\ run' = [run EXCEPT !.pc = "msg", !.state = s, !.k = 0]
                    /\ log' = Append(log, StepRecord(run.fn, "ad_final", run.state, a, s,
                                       0..Len(remainder) \cup {STATE_LAST_BYTE},
                                       Len(remainder), << >>, << >>))
    /\ UNCHANGED <<target, permVars, aeadVars, hashVars, cloneVars, adapterVars, released>>

\* aead_impl.rs:70-80, process_aad after the full blocks: the remainder, the
\* two separation bytes, gimli
StepAadFinal ==
    /\ run.fn \in {"encrypt", "decrypt"}
    /\ run.pc = "ad"
    /\ run.k = NumChunks(ad)
    /\ LET remainder == Remainder(ad)
       IN  \E a \in {Then(xor_bytes(target, run.state, remainder, Len(remainder)),
                       LAMBDA s1 : Then(xor_byte(target, s1, Len(remainder), 1),
                         LAMBDA s2 : xor_byte(target, s2, STATE_LAST_BYTE, 1)))} :
           \E s \in {gimli(target, a)} :
               /\ run' = [run EXCEPT !.pc = "msg", !.state = s, !.k = 0]
               /\ log' = Append(log, StepRecord(run.fn, "ad_final", run.state, a, s,
                                  0..Len(remainder) \cup {STATE_LAST_BYTE},
                                  Len(remainder), << >>, << >>))
    /\ UNCHANGED <<target, permVars, aeadVars, hashVars, cloneVars, adapterVars, released>>

\* aead_impl.rs:103-112, encrypt_in_place, one iteration of `for chunk in &mut iter`
StepEncryptBlock ==
    /\ run.fn = "encrypt"
    /\ run.pc = "msg"
    /\ run.k < NumChunks(buffer)
    /\ \E c \in {EncryptChunk(target, [state |-> run.state, buffer |-> << >>],
                              Chunk(buffer, run.k), RATE)} :
       \E s \in {gimli(target, c.state)} :
           /\ buffer' = ReplaceChunk(buffer, run.k, c.buffer)
           /\ run' = [run EXCEPT !.state = s, !.k = run.k + 1]
           /\ log' = Append(log, StepRecord("encrypt", "msg_block", run.state, c.state, s,
                                            0..(RATE - 1), -1, c.buffer, << >>))
    /\ UNCHANGED <<target, permVars, key, nonce, ad, tag, orig, phase, tampered, result,
                   computed, hashVars, cloneVars, adapterVars, released>>

\* aead_impl.rs:114-130, encrypt_in_place after the full blocks: the
\* remainder, the two separation bytes, gimli, the tag; the State is dropped
StepEncryptFinal ==
    /\ run.fn = "encrypt"
    /\ run.pc = "msg"
    /\ run.k = NumChunks(buffer)
    /\ LET remainder == Remainder(buffer)
       IN  \E c \in {EncryptChunk(target, [state |-> run.state, buffer |-> << >>],
                                  remainder, Len(remainder))} :
           \E a \in {Then(xor_byte(target, c.state, Len(remainder), 1),
                       LAMBDA s2 : xor_byte(target, s2, STATE_LAST_BYTE, 1))} :
           \E s \in {gimli(target, a)} :
               /\ buffer' = ReplaceChunk(buffer, run.k, c.buffer)
               /\ tag' = bytes_upto(target, s, TAG_SIZE)
               /\ run' = [run EXCEPT !.pc = "done", !.state = s]
               /\ log' = Append(log, StepRecord("encrypt", "msg_final", run.state, a, s,
                                  0..Len(remainder) \cup {STATE_LAST_BYTE},
                                  Len(remainder), c.buffer, bytes_upto(target, s, TAG_SIZE)))
               /\ released' = [kind |-> "State", bytes |-> drop_State(target, s)]
    /\ phase' = "encrypted"
    /\ UNCHANGED <<target, permVars, key, nonce, ad, orig, tampered, result, computed,
                   hashVars, cloneVars, adapterVars>>

\* the caller passes what encrypt_in_place returned to decrypt_in_place
StartDecrypt ==
    /\ run.fn = "encrypt"
    /\ run.pc = "done"
    /\ run' = [fn |-> "decrypt", pc |-> "init", state |-> State_new, k |-> 0, data |-> << >>,
            n |-> 0, entry |-> Hasher_new]
    /\ UNCHANGED <<target, permVars, aeadVars, hashVars, cloneVars, adapterVars, log, released>>

\* DecryptBlock without the call of gimli
StepDecryptBlock_NoPermute ==
    /\ run.fn = "decrypt"
    /\ run.pc = "msg"
    /\ run.k < NumChunks(buffer)
    /\ \E c \in {DecryptChunk(target, [state |-> run.state, buffer |-> << >>],
                              Chunk(buffer, run.k), RATE)} :
           /\ buffer' = ReplaceChunk(buffer, run.k, c.buffer)
           /\ run' = [run EXCEPT !.state = c.state, !.k = run.k + 1]
           /\ log' = Append(log, StepRecord("decrypt", "msg_block", run.state, c.state,
                                            c.state, 0..(RATE - 1), -1, << >>, << >>))
    /\ UNCHANGED <<target, permVars, key, nonce, ad, tag, orig, phase, tampered, result,
                   computed, hashVars, cloneVars, adapterVars, released>>

\* aead_impl.rs:151-161, decrypt_in_place, one iteration of `for chunk in &mut iter`
StepDecryptBlock ==
    /\ run.fn = "decrypt"
    /\ run.pc = "msg"
    /\ run.k < NumChunks(buffer)
    /\ \E c \in {DecryptChunk(target, [state |-> run.state, buffer |-> << >>],
                              Chunk(buffer, run.k), RATE)} :
       \E s \in {gimli(target, c.state)} :
           /\ buffer' = ReplaceChunk(buffer, run.k, c.buffer)
           /\ run' = [run EXCEPT !.state = s, !.k = run.k + 1]
           /\ log' = Append(log, StepRecord("decrypt", "msg_block", run.state, c.state, s,
                                            0..(RATE - 1), -1, << >>, << >>))
    /\ UNCHANGED <<target, permVars, key, nonce, ad, tag, orig, phase, tampered, result,
                   computed, hashVars, cloneVars, adapterVars, released>>

\* aead_impl.rs:163-183, decrypt_in_place after the full blocks: the
\* remainder, the two separation bytes, gimli, the comparison of the tags; the
\* State is dropped
StepDecryptFinal ==
    /\ run.fn = "decrypt"
    /\ run.pc = "msg"
    /\ run.k = NumChunks(buffer)
    /\ LET remainder == Remainder(buffer)
       IN  \E c \in {DecryptChunk(target, [state |-> run.state, buffer |-> << >>],
                                  remainder, Len(remainder))} :
           \E a \in {Then(xor_byte(target, c.state, Len(remainder), 1),
                       LAMBDA s2 : xor_byte(target, s2, STATE_LAST_BYTE, 1))} :
           \E s \in {gimli(target, a)} :
               /\ buffer' = ReplaceChunk(buffer, run.k, c.buffer)
               /\ computed' = bytes_upto(target, s, TAG_SIZE)
               /\ result' = verify(bytes_upto(target, s, TAG_SIZE), tag)
               /\ run' = [run EXCEPT !.pc = "done", !.state = s]
               /\ log' = Append(log, StepRecord("decrypt", "msg_final", run.state, a, s,
                                  0..Len(remainder) \cup {STATE_LAST_BYTE},
                                  Len(remainder), << >>, bytes_upto(target, s, TAG_SIZE)))
               /\ released' = [kind |-> "State", bytes |-> drop_State(target, s)]
    /\ phase' = "decrypted"
    /\ UNCHANGED <<target, permVars, key, nonce, ad, tag, orig, tampered, hashVars,
                   cloneVars, adapterVars>>

\* hash_impl.rs:66-72, hash, one iteration of `for chunk in &mut iter`
StepHashBlock ==
    /\ run.fn = "hash"
    /\ run.pc = "absorb"
    /\ run.k < NumChunks(input)
    /\ \E a \in {xor_bytes(target, run.state, Chunk(input, run.k), RATE)} :
       \E s \in {gimli(target, a)} :
           /\ run' = [run EXCEPT !.state = s, !.k = run.k + 1]
           /\ log' = Append(log, StepRecord("hash", "hash_block", run.state, a, s,
                                            0..(RATE - 1), -1, << >>, << >>))
    /\ UNCHANGED <<target, permVars, aeadVars, hashVars, cloneVars, adapterVars, released>>

\* StepHashFinal with the padding marker XORed into the last byte of the state
StepHashFinal_PadsLastByte ==
    /\ run.fn = "hash"
    /\ run.pc = "absorb"
    /\ run.k = NumChunks(input)
    /\ LET remainder == Remainder(input)
       IN  \E a \in {Then(xor_bytes(target, run.state, remainder, Len(remainder)),
                       LAMBDA s1 : Then(xor_byte(target, s1, Len(remainder), DOMAIN_XOF),
                         LAMBDA s2 : xor_byte(target, s2, STATE_LAST_BYTE, PADDING_MARKER)))} :
           \E s \in {gimli(target, a)} :
               /\ run' = [run EXCEPT !.pc = "squeeze", !.state = s]
               /\ digest' = bytes_upto(target, s, RATE)
               /\ log' = Append(log, StepRecord("hash", "hash_final", run.state, a, s,
                                  0..Len(remainder) \cup {STATE_LAST_BYTE},
                                  Len(remainder), << >>, bytes_upto(target, s, RATE)))
    /\ UNCHANGED <<target, permVars, aeadVars, corpus, hasher, fed, chunks, updates,
                   was_reset, hphase, input, cloneVars, adapterVars, released>>

\* hash_impl.rs:74-91, hash after the full blocks: the remainder, the domain
\* byte, the padding marker, gimli, the first 16 bytes of the output
StepHashFinal ==
    /\ run.fn = "hash"
    /\ run.pc = "absorb"
    /\ run.k = NumChunks(input)
    /\ LET remainder == Remainder(input)
       IN  \E a \in {Then(xor_bytes(target, run.state, remainder, Len(remainder)),
                       LAMBDA s1 : Then(xor_byte(target, s1, Len(remainder), DOMAIN_XOF),
                         LAMBDA s2 : xor_byte(target, s2, RATE - 1, PADDING_MARKER)))} :
           \E s \in {gimli(target, a)} :
               /\ run' = [run EXCEPT !.pc = "squeeze", !.state = s]
               /\ digest' = bytes_upto(target, s, RATE)
               /\ log' = Append(log, StepRecord("hash", "hash_final", run.state, a, s,
                                  0..Len(remainder) \cup {RATE - 1},
                                  Len(remainder), << >>, bytes_upto(target, s, RATE)))
    /\ UNCHANGED <<target, permVars, aeadVars, corpus, hasher, fed, chunks, updates,
                   was_reset, hphase, input, cloneVars, adapterVars, released>>

\* StepHashSqueeze that reads state bytes 16..32 for the second half
StepHashSqueeze_ReadsCapacity ==
    /\ run.fn = "hash"
    /\ run.pc = "squeeze"
    /\ \E s \in {gimli(target, run.state)} :
           /\ run' = [run EXCEPT !.pc = "done", !.state = s]
           /\ digest' = digest \o SubSeq(bytes_upto(target, s, 2 * RATE), RATE + 1, 2 * RATE)
           /\ log' = Append(log, StepRecord("hash", "squeeze", run.state, run.state, s,
                                            {}, -1, << >>,
                                            SubSeq(bytes_upto(target, s, 2 * RATE),
                                                   RATE + 1, 2 * RATE)))
           /\ released' = [kind |-> "State", bytes |-> drop_State(target, s)]
    /\ hphase' = "oneshot"
    /\ UNCHANGED <<target, permVars, aeadVars, corpus, hasher, fed, chunks, updates,
                   was_reset, input, cloneVars, adapterVars>>

\* hash_impl.rs:93-98, hash: gimli, the last 16 bytes of the output; the
\* State is dropped
StepHashSqueeze ==
    /\ run.fn = "hash"
    /\ run.pc = "squeeze"
    /\ \E s \in {gimli(target, run.state)} :
           /\ run' = [run EXCEPT !.pc = "done", !.state = s]
           /\ digest' = digest \o bytes_upto(target, s, RATE)
           /\ log' = Append(log, StepRecord("hash", "squeeze", run.state, run.state, s,
                                            {}, -1, << >>, bytes_upto(target, s, RATE)))
           /\ released' = [kind |-> "State", bytes |-> drop_State(target, s)]
    /\ hphase' = "oneshot"
    /\ UNCHANGED <<target, permVars, aeadVars, corpus, hasher, fed, chunks, updates,
                   was_reset, input, cloneVars, adapterVars>>

\* hasher.update(data) is called with the next n bytes of the corpus:
\* hash_impl.rs:132, let mut pos = 0
StartUpdate ==
    /\ run.fn = "hasher"
    /\ run.pc = "idle"
    /\ updates < MaxStepUpdates
    /\ \E n \in ChunkLengths :
        /\ Len(fed) + n <= Len(corpus)
        /\ run' = [run EXCEPT !.pc = "update", !.k = 0,
                              !.data = SubSeq(corpus, Len(fed) + 1, Len(fed) + n),
                              !.n = 0, !.entry = hasher]
        /\ chunks' = Append(chunks, n)
    /\ updates' = updates + 1
    /\ UNCHANGED <<target, permVars, aeadVars, corpus, hasher, fed, was_reset, hphase,
                   input, digest, cloneVars, adapterVars, log, released>>

\* hash_impl.rs:136-154, Hasher::update, one iteration of `while pos <
\* data.len()`; an iteration that fills the buffer absorbs it
StepUpdate ==
    /\ run.fn = "hasher"
    /\ run.pc = "update"
    /\ run.k < Len(run.data)
    /\ \E u \in {UpdateStep(target, [hasher |-> hasher, pos |-> run.k], run.data)} :
           /\ hasher' = u.hasher
           /\ run' = [run EXCEPT !.k = u.pos, !.n = run.n + 1]
           /\ log' = IF u.hasher.buffer_len = 0
                     THEN Append(log, StepRecord("hasher", "update_absorb", hasher.state,
                                     xor_bytes(target, hasher.state, u.hasher.buffer, RATE),
                                     u.hasher.state, 0..(RATE - 1), -1, << >>, << >>))
                     ELSE log
    /\ UNCHANGED <<target, permVars, aeadVars, corpus, fed, chunks, updates, was_reset,
                   hphase, input, digest, cloneVars, adapterVars, released>>

\* hash_impl.rs:136, 155, Hasher::update returns when pos = data.len()
ReturnUpdate ==
    /\ run.fn = "hasher"
    /\ run.pc = "update"
    /\ run.k = Len(run.data)
    /\ fed' = fed \o run.data
    /\ run' = [run EXCEPT !.pc = "idle", !.k = 0, !.data = << >>]
    /\ UNCHANGED <<target, permVars, aeadVars, corpus, hasher, chunks, updates, was_reset,
                   hphase, input, digest, cloneVars, adapterVars, log, released>>

\* StepFinalize with the padding marker stored in byte 15 of the rate, not
\* XORed into it
StepFinalize_MarkerStored ==
    /\ run.fn = "hasher"
    /\ run.pc = "idle"
    /\ \E a \in {Then(xor_bytes(target, hasher.state, hasher.buffer, hasher.buffer_len),
                   LAMBDA s1 : Then(xor_byte(target, s1, hasher.buffer_len, DOMAIN_XOF),
                     LAMBDA s2 : set_byte(target, s2, RATE - 1, PADDING_MARKER)))} :
       \E s \in {gimli(target, a)} :
           /\ hasher' = [hasher EXCEPT !.state = s]
           /\ run' = [run EXCEPT !.pc = "squeeze"]
           /\ digest' = bytes_upto(target, s, RATE)
           /\ log' = Append(log, StepRecord("hasher", "finalize", hasher.state, a, s,
                              0..hasher.buffer_len \cup {RATE - 1},
                              hasher.buffer_len, << >>, bytes_upto(target, s, RATE)))
    /\ UNCHANGED <<target, permVars, aeadVars, corpus, fed, chunks, updates, was_reset,
                   hphase, input, cloneVars, adapterVars, released>>

\* hash_impl.rs:158-172, Hasher::finalize: the buffered bytes, the domain
\* byte, the padding marker, gimli, the first 16 bytes of the output
StepFinalize ==
    /\ run.fn = "hasher"
    /\ run.pc = "idle"
    /\ \E a \in {Then(xor_bytes(target, hasher.state, hasher.buffer, hasher.buffer_len),
                   LAMBDA s1 : Then(xor_byte(target, s1, hasher.buffer_len, DOMAIN_XOF),
                     LAMBDA s2 : xor_byte(target, s2, RATE - 1, PADDING_MARKER)))} :
       \E s \in {gimli(target, a)} :
           /\ hasher' = [hasher EXCEPT !.state = s]
           /\ run' = [run EXCEPT !.pc = "squeeze"]
           /\ digest' = bytes_upto(target, s, RATE)
           /\ log' = Append(log, StepRecord("hasher", "finalize", hasher.state, a, s,
                              0..hasher.buffer_len \cup {RATE - 1},
                              hasher.buffer_len, << >>, bytes_upto(target, s, RATE)))
    /\ UNCHANGED <<target, permVars, aeadVars, corpus, fed, chunks, updates, was_reset,
                   hphase, input, cloneVars, adapterVars, released>>

\* hash_impl.rs:174-179, Hasher::finalize: gimli, the last 16 bytes of the
\* output; the hasher is dropped
StepFinalizeSqueeze ==
    /\ run.fn = "hasher"
    /\ run.pc = "squeeze"
    /\ \E s \in {gimli(target, hasher.state)} :
           /\ hasher' = [hasher EXCEPT !.state = s]
           /\ run' = [run EXCEPT !.pc = "done"]
           /\ digest' = digest \o bytes_upto(target, s, RATE)
           /\ log' = Append(log, StepRecord("hasher", "squeeze", hasher.state, hasher.state,
                                            s, {}, -1, << >>, bytes_upto(target, s, RATE)))
           /\ released' = [kind |-> "Hasher",
                           bytes |-> drop_Hasher(target, [hasher EXCEPT !.state = s])]
    /\ hphase' = "finalized"
    /\ UNCHANGED <<target, permVars, aeadVars, corpus, fed, chunks, updates, was_reset,
                   input, cloneVars, adapterVars>>

NextSteps ==
    \/ StepInitialize \/ StepAadBlock \/ StepAadFinal
    \/ StepEncryptBlock \/ StepEncryptFinal \/ StartDecrypt
    \/ StepDecryptBlock \/ StepDecryptFinal
    \/ StepHashBlock \/ StepHashFinal \/ StepHashSqueeze
    \/ StartUpdate \/ StepUpdate \/ ReturnUpdate
    \/ StepFinalize \/ StepFinalizeSqueeze

SpecSteps == InitSteps /\ [][NextSteps]_vars

----------------------------------------------------------------------------
(* rustcrypto_hash.rs: a GimliHash, which is a CoreWrapper<GimliHashCore>.   *)
(* The wrapper keeps the bytes it is given in its block buffer and hands    *)
(* them to the core as blocks of BlockSize = 32 bytes; the buffer kind is   *)
(* Eager, so a full buffer is handed over at once and pos stays below 32.   *)

\* the number of update calls made on one GimliHash
MaxAdapterUpdates == 3

\* the bytes the GimliHash is given
AdapterCorpus == Speak \o Speak

\* the lengths of the chunks given to it by one update call
AdapterChunks == {0, 1, 31, 32, 33, 65}

\* UpdateCore::update_blocks: for block in blocks { self.hasher.update(block) }
update_blocks(t, h, blocks) ==
    ForRange(h, 0, Len(blocks), LAMBDA g, i : update(t, g, blocks[i + 1]))

\* the blocks of 32 bytes that data is split in, and what is left over
SplitBlocks(data) ==
    [blocks |-> [i \in 1..(Len(data) \div 32) |-> SubSeq(data, 32 * (i - 1) + 1, 32 * i)],
     leftover |-> SubSeq(data, 32 * (Len(data) \div 32) + 1, Len(data))]

\* CoreWrapper::update with an Eager buffer: data that does not fill the
\* buffer is kept in it; otherwise the buffer is filled and handed to
\* update_blocks, then the full blocks of the rest are, and what is left
\* over is kept.  w is the core's hasher and the block buffer.
wrapper_update(t, w, data) ==
    LET pos == w.block_buffer.pos
        rem == 32 - pos
    IN  IF Len(data) < rem
        THEN [hasher |-> w.hasher,
              block_buffer |->
                  [buffer |-> SubSeq(w.block_buffer.buffer, 1, pos) \o data
                                  \o SubSeq(w.block_buffer.buffer, pos + Len(data) + 1, 32),
                   pos |-> pos + Len(data)]]
        ELSE LET left == IF pos # 0 THEN SubSeq(data, 1, rem) ELSE << >>
                 right == IF pos # 0 THEN SubSeq(data, rem + 1, Len(data)) ELSE data
                 filled == SubSeq(w.block_buffer.buffer, 1, pos) \o left
                 h1 == IF pos # 0 THEN update_blocks(t, w.hasher, << filled >>)
                       ELSE w.hasher
                 split == SplitBlocks(right)
                 h2 == Then(h1, LAMBDA g : update_blocks(t, g, split.blocks))
                 kept == IF pos # 0 THEN filled ELSE w.block_buffer.buffer
             IN  [hasher |-> h2,
                  block_buffer |->
                      [buffer |-> split.leftover
                                      \o SubSeq(kept, Len(split.leftover) + 1, 32),
                       pos |-> Len(split.leftover)]]

\* finalize_fixed_core that gives the hasher the whole block buffer
finalize_fixed_core_WholeBuffer(t, h, buf) ==
    LET pos == buf.pos
        h1 == IF pos > 0 THEN update(t, h, buf.buffer) ELSE h
    IN  Then(finalize_run(t, h1),
             LAMBDA f : [hasher |-> Hasher_new, out |-> f.output, dropped |-> f.self])

\* FixedOutputCore::finalize_fixed_core: the buffered bytes are given to the
\* hasher if there are any; core::mem::take leaves Hasher::default(), which is
\* Hasher::new() (hash_impl.rs:183-187), in self.hasher and the hasher taken
\* is finalized
finalize_fixed_core(t, h, buf) ==
    LET pos == buf.pos
        h1 == IF pos > 0 THEN update(t, h, SubSeq(buf.buffer, 1, pos)) ELSE h
    IN  Then(finalize_run(t, h1),
             LAMBDA f : [hasher |-> Hasher_new, out |-> f.output, dropped |-> f.self])

\* let mut hasher = GimliHash::new()
InitAdapter ==
    /\ target \in Targets
    /\ corpus = AdapterCorpus
    /\ hasher = Hasher_new
    /\ fed = << >>
    /\ chunks = << >>
    /\ updates = 0
    /\ was_reset = FALSE
    /\ hphase = "live"
    /\ input = << >>
    /\ digest = << >>
    /\ PermIdle /\ AeadIdle
    /\ released = NoRelease
    /\ ExtIdle

\* Digest::update(&mut hasher, data), data being the next n bytes of the corpus
WrapperUpdate ==
    /\ hphase = "live"
    /\ updates < MaxAdapterUpdates
    /\ \E n \in AdapterChunks :
        /\ Len(fed) + n <= Len(corpus)
        /\ LET data == SubSeq(corpus, Len(fed) + 1, Len(fed) + n)
           IN  /\ \E w \in {wrapper_update(target,
                                [hasher |-> hasher, block_buffer |-> block_buffer], data)} :
                      /\ hasher' = w.hasher
                      /\ block_buffer' = w.block_buffer
               /\ fed' = fed \o data
        /\ chunks' = Append(chunks, n)
    /\ updates' = updates + 1
    /\ UNCHANGED <<target, permVars, aeadVars, corpus, was_reset, hphase, input, digest,
                   released, cloneVars, stepVars>>

\* let digest = hasher.finalize(): finalize_fixed_core with the wrapper's
\* block buffer; the hasher that was taken is dropped when finalize returns
WrapperFinalize ==
    /\ hphase = "live"
    /\ \E f \in {finalize_fixed_core(target, hasher, block_buffer)} :
           /\ hasher' = f.hasher
           /\ digest' = f.out
           /\ released' = [kind |-> "Hasher", bytes |-> drop_Hasher(target, f.dropped)]
    /\ hphase' = "finalized"
    /\ UNCHANGED <<target, permVars, aeadVars, corpus, fed, chunks, updates, was_reset,
                   input, cloneVars, stepVars, adapterVars>>

NextAdapter == WrapperUpdate \/ WrapperFinalize

SpecAdapter == InitAdapter /\ [][NextAdapter]_vars

----------------------------------------------------------------------------
(* the properties *)

\* C1: AEAD round trip.  When decrypt_in_place is given the buffer, the tag,
\* the key, the nonce and the associated data exactly as encrypt_in_place left
\* them, it returns Ok and the buffer is the original message again.
C1_RoundTrip ==
    (phase \in {"decrypted", "dropped"} /\ tampered = "none")
        => (result = "Ok" /\ buffer = orig)

\* a 17-byte message with 16 bytes of associated data has made the round trip
C1_Witness ==
    /\ phase = "decrypted" /\ tampered = "none"
    /\ Len(orig) = RATE + 1 /\ Len(ad) = RATE
    /\ result = "Ok" /\ buffer = orig

\* C2: incremental hashing equals one-shot hashing.  Whatever chunks the
\* input was fed in, finalize returns hash of the concatenation of the chunks.
C2_IncrementalEqualsOneShot ==
    hphase = "finalized" => digest = hash(target, fed)

\* a hasher fed 15 bytes, an empty chunk and 17 bytes has been finalized
C2_Witness ==
    hphase = "finalized" /\ chunks = << RATE - 1, 0, RATE + 1 >> /\ Len(digest) = HASH_SIZE

\* C3: decrypt_in_place returns Ok exactly when the supplied tag equals the
\* first 16 bytes of the state after the final permutation, and
\* AuthenticationFailed otherwise; a tag with one bit changed is rejected.
C3_TagVerification ==
    phase \in {"decrypted", "dropped"} =>
        /\ result \in {"Ok", "AuthenticationFailed"}
        /\ (result = "Ok") <=> (tag = computed)
        /\ tampered = "tag" => result = "AuthenticationFailed"

\* a tag that differs from the computed one in its last byte only was rejected
C3_Witness ==
    /\ phase = "decrypted" /\ tampered = "tag"
    /\ result = "AuthenticationFailed"
    /\ SubSeq(tag, 1, TAG_SIZE - 1) = SubSeq(computed, 1, TAG_SIZE - 1)
    /\ tag[TAG_SIZE] # computed[TAG_SIZE]

\* C4: back-end equivalence.  After every round the rows of the SSE2 and of
\* the NEON back-end hold the words of the portable state, and the three
\* functions return the same state for the same input.
C4_BackendsAgree ==
    /\ store(sse2) = pstate
    /\ store(neon) = pstate
    /\ round = 0 =>
        /\ gimli_portable(pin) = pstate
        /\ gimli_sse2(pin) = pstate
        /\ gimli_neon(pin) = pstate

\* the three back-ends have run all 24 rounds on the input of
\* test_gimli_sse2_matches_portable
C4_Witness == round = 0 /\ pin = MatchIn /\ pstate # pin /\ store(sse2) = pstate

\* C5: the golden vector.  gimli applied once to the test input of the Gimli
\* specification gives the expected output, on every back-end.
C5_GoldenVector ==
    (pin = GoldenIn /\ round = 0) =>
        /\ pstate = GoldenOut
        /\ store(sse2) = GoldenOut
        /\ store(neon) = GoldenOut
        /\ \A t \in Targets : gimli(t, GoldenIn) = GoldenOut

\* the 24 rounds have run on the golden input
C5_Witness == pin = GoldenIn /\ round = 0 /\ pstate = GoldenOut

\* C6: hash known answers.  hash of the empty input and hash of "Speak words
\* we can all understand!" are the digests of the hash/gimli24v1 test vectors.
C6_KnownAnswers ==
    hphase = "oneshot" =>
        /\ input = << >> => digest = DigestEmpty
        /\ input = Speak => digest = DigestSpeak

\* C7: authentication.  With one bit of the tag, the ciphertext, the
\* associated data, the nonce or the key flipped after encryption,
\* decrypt_in_place returns AuthenticationFailed.
C7_TamperDetected ==
    (phase \in {"decrypted", "dropped"} /\ tampered # "none")
        => result = "AuthenticationFailed"

\* the last bit of the key was flipped and decryption failed
C7_Witness ==
    /\ phase = "decrypted" /\ tampered = "key" /\ key # InputKey
    /\ SubSeq(key, 1, KEY_SIZE - 1) = SubSeq(InputKey, 1, KEY_SIZE - 1)
    /\ Len(orig) = RATE + 1
    /\ result = "AuthenticationFailed"

\* byte k of word w, little-endian: bits 8k .. 8k + 7
LittleEndianByte(w, k) == U8Of({j \in 0..7 : (8 * k + j) \in w})

\* C8: on every target, byte 4i + k of the byte view of the state is bits
\* 8k .. 8k + 7 of word i.
C8_LittleEndianView ==
    \A i \in 0..11 : \A k \in 0..3 :
        as_bytes(target, hasher.state, 4 * i + k) = LittleEndianByte(hasher.state[i + 1], k)

\* C9: zeroisation.  Every byte a destroyed State, GimliAead or Hasher held
\* is zero when its memory is released.
C9_ZeroOnRelease ==
    \A i \in 1..Len(released.bytes) : released.bytes[i] = 0

\* what a new hasher is after update calls with the chunks fed since the reset
Replayed ==
    ForRange([hasher |-> Hasher_new, at |-> 0], 0, Len(chunks),
        LAMBDA r, j :
            [hasher |-> update(target, r.hasher,
                               SubSeq(corpus, r.at + 1, r.at + chunks[j + 1])),
             at |-> r.at + chunks[j + 1]]).hasher

\* C10: reset.  A hasher that was reset is, after any further updates, what a
\* new hasher is after the same updates, and finalize returns the same digest.
C10_ResetIsNew ==
    was_reset =>
        /\ hasher = Replayed
        /\ hphase = "finalized" => digest = finalize(target, Replayed)

\* a hasher was fed a chunk, reset, fed 15 bytes and 17 bytes, and finalized
C10_Witness ==
    /\ was_reset /\ hphase = "finalized"
    /\ updates = 3 /\ chunks = << RATE - 1, RATE + 1 >>
    /\ released.kind = "Hasher"


\* C11: clone independence.  After twin = hasher.clone(), each of the two
\* hashers is what a new hasher is after the bytes fed before the clone and
\* its own later input, whatever was done with the other; each digest is hash
\* of those bytes, and the same updates give the same digest.
C11_CloneIndependent ==
    phase2 # "none" =>
        /\ hphase = "live" => hasher = update(target, Hasher_new, fed)
        /\ phase2 = "live" => twin = update(target, Hasher_new, fed2)
        /\ hphase = "finalized" => digest = hash(target, fed)
        /\ phase2 = "finalized" => digest2 = hash(target, fed2)
        /\ (hphase = "finalized" /\ phase2 = "finalized" /\ fed = fed2) => digest = digest2

\* a hasher was cloned with 15 bytes in its buffer; the hasher was then fed 17
\* bytes and the twin nothing, and both were finalized
C11_Witness ==
    /\ hphase = "finalized" /\ phase2 = "finalized"
    /\ chunks = << RATE - 1, RATE + 1 >> /\ Len(fed2) = RATE - 1
    /\ digest # digest2


\* the state one round makes of st by the schedule: the SP-box on the four
\* columns; then, in a round divisible by 4, words 0 and 1 and words 2 and 3
\* exchanged and 0x9e377900 | round XORed into word 0; in a round that is 2
\* modulo 4, words 0 and 2 and words 1 and 3 exchanged
ScheduledRound(st, r) ==
    LET sp == [i \in 1..12 |-> SPBoxColumn(st, (i - 1) % 4)[i]]
        row0 == CASE r % 4 = 0 ->
                        << XOR(sp[2], U32(40503, 30976 + r)), sp[1], sp[4], sp[3] >>
                  [] r % 4 = 2 -> << sp[3], sp[4], sp[1], sp[2] >>
                  [] OTHER -> << sp[1], sp[2], sp[3], sp[4] >>
    IN  row0 \o SubSeq(sp, 5, 12)

\* C14: the round schedule.  gimli starts at round 24 and every step is one
\* round, numbered one less than the round before it, that changes the state
\* (the portable words, the SSE2 rows) as the schedule says.
C14_RoundSchedule ==
    /\ round = ROUNDS
    /\ [][/\ round \in 1..ROUNDS
          /\ round' = round - 1
          /\ pstate' = ScheduledRound(pstate, round)
          /\ store(sse2') = ScheduledRound(store(sse2), round)]_vars

\* rounds 24 to 21 have run on the all-ones state, the next round is 20
C14_Witness == round = ROUNDS - 4 /\ pin = AllOnes /\ pstate # pin


\* the step-by-step call returns what the function returns
StepsRefine ==
    /\ (run.fn = "encrypt" /\ run.pc = "done") =>
           LET e == encrypt_in_place(target, key, nonce, ad, orig)
           IN  buffer = e.buffer /\ tag = e.tag /\ run.state = e.state
    /\ (run.fn = "decrypt" /\ run.pc = "done") =>
           result = "Ok" /\ buffer = orig
    /\ (run.fn = "hash" /\ run.pc = "done") => digest = hash(target, input)
    /\ (run.fn = "hasher" /\ run.pc = "idle") => hasher = update(target, Hasher_new, fed)
    /\ (run.fn = "hasher" /\ run.pc = "done") => digest = hash(target, fed)


\* the steps logged for the call of fn
CallLog(fn) == SelectSeq(log, LAMBDA r : r.fn = fn)

\* C15: AEAD initialisation.  In encrypt_in_place and in decrypt_in_place the
\* first step, and only the first, is the initialisation: a new State whose
\* bytes 0..16 are the nonce and whose bytes 16..48 are the key, permuted
\* once; the absorption of the associated data starts from that state, which
\* is the same in both calls.
C15_Initialisation ==
    \A fn \in {"encrypt", "decrypt"} :
        LET steps == CallLog(fn)
        IN  /\ \A j \in 1..Len(steps) : (steps[j].step = "init") <=> (j = 1)
            /\ steps # << >> =>
                /\ steps[1].start = State_new
                /\ StateBytes(target, steps[1].absorbed) = nonce \o key
                /\ steps[1].state = initialize(target, key, nonce)
                /\ Len(steps) > 1 =>
                    /\ steps[2].step \in {"ad_block", "ad_final"}
                    /\ steps[2].start = steps[1].state
                /\ CallLog("encrypt")[1].state = steps[1].state

\* decrypt_in_place has initialised its state and absorbed the first block of
\* 17 bytes of associated data
C15_Witness ==
    /\ run.fn = "decrypt" /\ run.pc = "ad" /\ run.k = 1
    /\ Len(ad) = RATE + 1
    /\ CallLog("decrypt")[1].state = CallLog("encrypt")[1].state


\* the steps of one call on associated data a and a message m, in order
ExpectedSteps(a, m) ==
    << "init" >> \o [i \in 1..(Len(a) \div 16) |-> "ad_block"] \o << "ad_final" >>
        \o [i \in 1..(Len(m) \div 16) |-> "msg_block"] \o << "msg_final" >>

\* C16: the final absorb always happens.  The steps of one call, each ending
\* in one call of gimli, are: init, one for every full block of associated
\* data, the final one of the associated data, one for every full block of
\* the message, the final one of the message: 3 + floor(len(ad) / 16) +
\* floor(len(buf) / 16) in all.  Each final step XORs 0x01 into the rate byte
\* len mod 16 and into byte 47 before it calls gimli.
C16_FinalAbsorb ==
    \A fn \in {"encrypt", "decrypt"} :
        LET steps == CallLog(fn)
            expected == ExpectedSteps(ad, orig)
        IN  /\ Len(steps) <= Len(expected)
            /\ \A j \in 1..Len(steps) :
                /\ steps[j].step = expected[j]
                /\ j > 1 => steps[j].start = steps[j - 1].state
                /\ steps[j].step \in {"ad_final", "msg_final"} =>
                    LET len == IF steps[j].step = "ad_final" THEN Len(ad) ELSE Len(orig)
                    IN  /\ as_bytes(target, steps[j].absorbed, len % 16)
                             = Xor8(as_bytes(target, steps[j].start, len % 16), 1)
                        /\ as_bytes(target, steps[j].absorbed, 47)
                             = Xor8(as_bytes(target, steps[j].start, 47), 1)
            /\ log # << >> => log[Len(log)].state = gimli(target, log[Len(log)].absorbed)
            /\ (run.fn = fn /\ run.pc = "done") =>
                /\ Len(steps) = 3 + (Len(ad) \div 16) + (Len(orig) \div 16)
                /\ steps[Len(steps)].step = "msg_final"

\* encrypt_in_place has returned after 3 calls of gimli: the associated data
\* and the message are empty
C16_Witness ==
    /\ run.fn = "encrypt" /\ run.pc = "done"
    /\ ad = << >> /\ orig = << >>
    /\ Len(log) = 3
    /\ log[2].step = "ad_final" /\ log[2].absorbed # log[2].start


\* the first n bytes of the state st
Rate(st, n) == SubSeq(StateBytes(target, st), 1, n)

\* the message steps of the call of fn
MsgSteps(fn) == SelectSeq(log, LAMBDA r : r.fn = fn /\ r.step \in {"msg_block", "msg_final"})

\* C20: duplex state agreement.  With C the ciphertext encrypt_in_place made
\* of P, after every block and after the final partial block the state in
\* decrypt_in_place(C) is the state encrypt_in_place(P) had there: each
\* ciphertext byte is the plaintext byte XOR the rate byte of the same index,
\* encryption leaves the ciphertext block in the rate, and decryption writes
\* the ciphertext block over the rate.
C20_DuplexAgreement ==
    LET enc == MsgSteps("encrypt")
        dec == MsgSteps("decrypt")
    IN  /\ \A j \in 1..Len(enc) :
            LET plain == SubSeq(orig, RATE * (j - 1) + 1, RATE * (j - 1) + Len(enc[j].out))
            IN  /\ Len(enc[j].out) = Min(RATE, Len(orig) - RATE * (j - 1))
                /\ \A i \in 1..Len(plain) :
                       enc[j].out[i] = Xor8(plain[i], as_bytes(target, enc[j].start, i - 1))
                /\ Rate(enc[j].absorbed, Len(plain)) = enc[j].out
        /\ \A j \in 1..Len(dec) :
            /\ dec[j].start = enc[j].start
            /\ Rate(dec[j].absorbed, Len(enc[j].out)) = enc[j].out
            /\ dec[j].absorbed = enc[j].absorbed
            /\ dec[j].state = enc[j].state

\* decrypt_in_place has decrypted the full block and the last byte of a
\* 17-byte ciphertext
C20_Witness ==
    /\ run.fn = "decrypt" /\ run.pc = "done"
    /\ Len(orig) = RATE + 1
    /\ Len(MsgSteps("decrypt")) = 2
    /\ MsgSteps("decrypt")[2].state = MsgSteps("encrypt")[2].state
    /\ MsgSteps("encrypt")[1].out # SubSeq(orig, 1, RATE)


\* the indices of the state bytes that differ between the states a and b
Changed(a, b) == {i \in 0..(STATE_SIZE - 1) : as_bytes(target, a, i) # as_bytes(target, b, i)}

\* the concatenation of the field f (out or after) of the records of steps
RECURSIVE Concat(_, _)
Concat(steps, f) ==
    IF steps = << >> THEN << >>
    ELSE Concat(SubSeq(steps, 1, Len(steps) - 1), f) \o steps[Len(steps)][f]

\* C17: the rate/capacity frame.  Apart from initialize, a step of the AEAD
\* writes only state bytes 0..16 and byte 47, a step of the hash only bytes
\* 0..16; every other byte is as the last call of gimli left it.  What is
\* copied out of the state is its first bytes, 16 at most: the ciphertext
\* before gimli is called, the tag and the digest after.
C17_RateCapacityFrame ==
    /\ \A j \in 1..Len(log) :
        LET r == log[j]
        IN  /\ j > 1 => r.start = log[j - 1].state \/ r.step = "init"
            /\ r.step # "init" =>
                /\ r.wrote \subseteq
                       (IF r.fn \in {"encrypt", "decrypt"}
                        THEN 0..(RATE - 1) \cup {STATE_LAST_BYTE} ELSE 0..(RATE - 1))
                /\ Changed(r.start, r.absorbed) \subseteq r.wrote
            /\ Len(r.out) <= RATE /\ r.out = Rate(r.absorbed, Len(r.out))
            /\ Len(r.after) <= RATE /\ r.after = Rate(r.state, Len(r.after))
    /\ (run.fn = "encrypt" /\ run.pc = "done") =>
           /\ buffer = Concat(MsgSteps("encrypt"), "out")
           /\ tag = log[Len(log)].after
    /\ (run.fn \in {"hash", "hasher"} /\ run.pc = "done") =>
           digest = Concat(CallLog(run.fn), "after")

\* hash has returned the digest of 17 bytes: a full block, a final block
\* whose domain byte went to byte 1 and padding marker to byte 15, a squeeze
C17_Witness ==
    /\ run.fn = "hash" /\ run.pc = "done" /\ Len(input) = RATE + 1
    /\ Len(log) = 3
    /\ Changed(log[2].start, log[2].absorbed) = {0, 1, RATE - 1}
    /\ Len(digest) = HASH_SIZE


\* the steps that XOR a separation byte into the state
FinalSteps == {"ad_final", "msg_final", "hash_final", "finalize"}

\* the number of bytes absorbed by the part of the call that the step r ends
AbsorbedLen(r) ==
    CASE r.step = "ad_final" -> Len(ad)
      [] r.step = "msg_final" -> Len(orig)
      [] r.step = "hash_final" -> Len(input)
      [] r.step = "finalize" -> Len(fed)

\* C18: the separation index is inside the rate.  The byte 0x01 (AEAD) or 0x1F
\* (hash) is XORed into the state byte whose index is the length of the final
\* partial block, which is the input length modulo 16 and so one of 0..15,
\* for every input length and every sequence of update calls.
C18_SeparationIndexInRate ==
    \A j \in 1..Len(log) :
        LET r == log[j]
        IN  /\ (r.step \in FinalSteps) <=> (r.sep # -1)
            /\ r.step \in FinalSteps =>
                /\ r.sep \in 0..(RATE - 1)
                /\ r.sep = AbsorbedLen(r) % 16
                /\ as_bytes(target, r.absorbed, r.sep) =
                       Xor8(as_bytes(target, r.start, r.sep),
                            IF r.fn \in {"encrypt", "decrypt"} THEN 1
                            ELSE IF r.sep = RATE - 1 THEN Xor8(DOMAIN_XOF, PADDING_MARKER)
                            ELSE DOMAIN_XOF)

\* a hasher fed 15 bytes by one update call and 17 bytes by another has
\* started to finalize: the buffer was empty and the domain byte went to
\* byte 0
C18_Witness ==
    /\ run.fn = "hasher" /\ run.pc = "squeeze"
    /\ chunks = << RATE - 1, RATE + 1 >>
    /\ log[Len(log)].step = "finalize" /\ log[Len(log)].sep = 0


\* the state after the first 16 * floor(n / 16) bytes of data were absorbed
\* block by block from the zero state
AbsorbedBlocks(data) ==
    ForRange(State_new, 0, Len(data) \div 16,
        LAMBDA s, k : gimli(target, xor_bytes(target, s, SubSeq(data, 16 * k + 1, 16 * k + 16), 16)))

\* C19: the Hasher buffer invariant.  After new and after every update, with
\* n the number of bytes fed so far: buffer_len is n mod 16 (so never 16), the
\* first buffer_len bytes of the buffer are the last n mod 16 bytes fed, and
\* the state is the zero state after absorbing the first 16 * floor(n / 16)
\* bytes block by block.
C19_BufferInvariant ==
    hphase = "live" =>
        LET n == Len(fed)
        IN  /\ hasher.buffer_len = n % 16
            /\ hasher.buffer_len \in 0..(RATE - 1)
            /\ SubSeq(hasher.buffer, 1, hasher.buffer_len) = SubSeq(fed, n - (n % 16) + 1, n)
            /\ hasher.state = AbsorbedBlocks(fed)

\* a hasher was fed 15 bytes and then 17 bytes: two blocks were absorbed and
\* the buffer is empty again
C19_Witness ==
    /\ hphase = "live" /\ ~was_reset
    /\ chunks = << RATE - 1, RATE + 1 >>
    /\ hasher.buffer_len = 0 /\ hasher.state # State_new


\* the first block of a buffer: its first 16 bytes, or all of it if it is shorter
FirstBlock(buf) == SubSeq(buf, 1, Min(RATE, Len(buf)))

HashedData == IF run.fn = "hash" THEN input ELSE fed \o run.data

\* what the final block XORs into rate byte i (and 0 for i beyond the rate):
\* the remainder from offset 0, 0x1F at the length of the remainder, 0x80 at 15
PadByte(remainder, i) ==
    Xor8(Xor8(IF i < Len(remainder) THEN remainder[i + 1] ELSE 0,
              IF i = Len(remainder) THEN 31 ELSE 0),
         IF i = 15 THEN 128 ELSE 0)

\* C22: hash padding.  hash and the Hasher absorb floor(n / 16) full blocks
\* of an input of n bytes, each XORed into state bytes 0..16, and then always
\* one final block: the n mod 16 remaining bytes XORed from offset 0, 0x1F
\* XORed into rate byte n mod 16 and 0x80 into rate byte 15 (0x9F in all when
\* n mod 16 = 15, the two constants alone when n mod 16 = 0).  With the
\* squeeze, gimli is applied floor(n / 16) + 2 times.
C22_HashPadding ==
    run.fn \in {"hash", "hasher"} =>
        LET data == HashedData
            n == Len(data)
        IN  /\ \A j \in 1..Len(log) :
                LET r == log[j]
                IN  /\ j <= n \div 16 =>
                        /\ r.step \in {"hash_block", "update_absorb"}
                        /\ \A i \in 0..(STATE_SIZE - 1) :
                               as_bytes(target, r.absorbed, i) =
                                   Xor8(as_bytes(target, r.start, i),
                                        IF i < 16 THEN data[16 * (j - 1) + i + 1] ELSE 0)
                    /\ r.step \in {"hash_final", "finalize"} =>
                        /\ j = (n \div 16) + 1
                        /\ \A i \in 0..(STATE_SIZE - 1) :
                               as_bytes(target, r.absorbed, i) =
                                   Xor8(as_bytes(target, r.start, i),
                                        PadByte(SubSeq(data, n - (n % 16) + 1, n), i))
                        /\ n % 16 = 15 =>
                               as_bytes(target, r.absorbed, 15) =
                                   Xor8(as_bytes(target, r.start, 15), 159)
                        /\ r.state = gimli(target, r.absorbed)
                    /\ r.step = "squeeze" => j = (n \div 16) + 2
                    /\ j > 1 => r.start = log[j - 1].state
            /\ run.pc = "done" =>
                /\ Len(log) = (n \div 16) + 2
                /\ log[Len(log) - 1].step \in {"hash_final", "finalize"}

\* a hasher fed 15 bytes has been finalized after 2 calls of gimli: the
\* final block XORed the 15 bytes into rate bytes 0..15 and 0x9F into byte 15
C22_Witness ==
    /\ run.fn = "hasher" /\ run.pc = "done"
    /\ Len(fed) = RATE - 1
    /\ Len(log) = 2
    /\ log[1].step = "finalize"
    /\ log[1].start = State_new
    /\ as_bytes(target, log[1].absorbed, 14) = fed[15]
    /\ as_bytes(target, log[1].absorbed, 15) = 159


\* the State of the hash that is running: the local state of hash, or the
\* state of the hasher
SpongeState == IF run.fn = "hash" THEN run.state ELSE hasher.state

\* C23: squeeze.  In hash and in Hasher::finalize alike, the first 16 bytes of
\* the digest are state bytes 0..16 as the permutation of the final block left
\* them; the state is not written before gimli is applied to it once more, and
\* the last 16 bytes of the digest are state bytes 0..16 after that one
\* permutation.
C23_Squeeze ==
    run.fn \in {"hash", "hasher"} =>
        /\ run.pc = "squeeze" =>
            LET f == log[Len(log)]
            IN  /\ f.step \in {"hash_final", "finalize"}
                /\ digest = Rate(f.state, 16)
                /\ SpongeState = f.state
        /\ run.pc = "done" =>
            LET f == log[Len(log) - 1]
                q == log[Len(log)]
            IN  /\ f.step \in {"hash_final", "finalize"}
                /\ q.step = "squeeze"
                /\ q.start = f.state
                /\ q.absorbed = f.state
                /\ q.state = gimli(target, f.state)
                /\ Len(digest) = 32
                /\ SubSeq(digest, 1, 16) = Rate(f.state, 16)
                /\ SubSeq(digest, 17, 32) = Rate(q.state, 16)
                /\ Len(SelectSeq(log, LAMBDA r : r.step = "squeeze")) = 1
        /\ run.pc \notin {"squeeze", "done"} =>
               \A j \in 1..Len(log) : log[j].step \notin {"squeeze", "hash_final", "finalize"}

\* hash has returned the digest of 16 bytes: its halves are the first 16 bytes
\* of two states one permutation apart, and the last half is not bytes 16..32
\* of either
C23_Witness ==
    /\ run.fn = "hash" /\ run.pc = "done" /\ Len(input) = RATE
    /\ Len(log) = 3
    /\ log[3].step = "squeeze" /\ log[3].start = log[2].state /\ log[3].state # log[3].start
    /\ digest = Rate(log[2].state, 16) \o Rate(log[3].state, 16)
    /\ SubSeq(digest, 17, 32) # SubSeq(StateBytes(target, log[2].state), 17, 32)
    /\ SubSeq(digest, 17, 32) # SubSeq(StateBytes(target, log[3].state), 17, 32)


\* C24 as stated: in a call of Hasher::update pos never passes data.len(), the
\* loop has made at most floor(len(data) / 16) + 1 iterations, and a call with
\* empty data ends with no iteration made and self as it was.
C24_AtMostBlocksPlusOne ==
    (run.fn = "hasher" /\ run.pc = "update") =>
        /\ run.k \in 0..Len(run.data)
        /\ run.n <= (Len(run.data) \div 16) + 1
        /\ run.data = << >> => (run.n = 0 /\ hasher = run.entry)

\* C24, with the number of iterations set right: Hasher::update terminates.
\* Every iteration of its loop consumes at least one byte of data and pos
\* never passes data.len(); when the loop ends all of data is consumed, after
\* ceil((buffer_len + len(data)) / 16) iterations for nonempty data,
\* buffer_len being the one the call started with: at most
\* floor(len(data) / 16) + 2.  A call with empty data makes no iteration and
\* leaves state, buffer and buffer_len as they were.
C24_UpdateTerminates ==
    /\ []((run.fn = "hasher" /\ run.pc = "update") =>
            /\ run.k \in 0..Len(run.data)
            /\ run.n <= (Len(run.data) \div 16) + 2
            /\ (run.k = Len(run.data) /\ run.data # << >>) =>
                   run.n = (run.entry.buffer_len + Len(run.data) + 15) \div 16
            /\ run.data = << >> => (run.n = 0 /\ hasher = run.entry))
    /\ [][(run.pc = "update" /\ run'.pc = "update") =>
              (run'.k > run.k /\ run'.n = run.n + 1)]_vars

\* a hasher that holds 15 bytes was given 15 more: the loop has ended after two
\* iterations, the first of which consumed one byte and absorbed the buffer
C24_Witness ==
    /\ run.fn = "hasher" /\ run.pc = "update"
    /\ run.entry.buffer_len = RATE - 1
    /\ Len(run.data) = RATE - 1 /\ run.k = Len(run.data)
    /\ run.n = 2
    /\ hasher.buffer_len = RATE - 2
    /\ hasher.state # run.entry.state


\* the message m with every byte from byte number j on (j = 1 is the first)
\* changed
ChangedFrom(m, j) == [i \in 1..Len(m) |-> IF i < j THEN m[i] ELSE Xor8(m[i], 255)]

\* what encrypt_in_place leaves in the buffer for the message m, with the key,
\* the nonce and the associated data of the exchange
CiphertextOf(m) == encrypt_in_place(target, key, nonce, ad, m).buffer

\* C25: encryption is online.  With the key, the nonce and the associated data
\* fixed, two messages that agree on their first p bytes have ciphertexts
\* that agree on their first p bytes, and so on their first 16 * k bytes if
\* p >= 16 * k: a ciphertext byte depends on no later plaintext byte, of its
\* own block or of a later one.  The ciphertext of a prefix of the message is
\* the prefix of the ciphertext, and changing every byte from byte j on
\* leaves the ciphertext bytes before j as they were and changes byte j.
C25_OnlineEncryption ==
    (phase = "encrypted" /\ tampered = "none") =>
        /\ \A p \in 0..Len(orig) :
               CiphertextOf(SubSeq(orig, 1, p)) = SubSeq(buffer, 1, p)
        /\ \A j \in 1..Len(orig) :
               LET other == CiphertextOf(ChangedFrom(orig, j))
               IN  /\ SubSeq(other, 1, j - 1) = SubSeq(buffer, 1, j - 1)
                   /\ other[j] # buffer[j]

\* a 17-byte message was encrypted; the message that differs from it in the
\* last byte of the first block and in the byte after it has a ciphertext
\* with the same first 15 bytes
C25_Witness ==
    /\ phase = "encrypted" /\ tampered = "none"
    /\ Len(orig) = RATE + 1 /\ Len(ad) = RATE + 1
    /\ buffer # orig
    /\ SubSeq(CiphertextOf(ChangedFrom(orig, RATE)), 1, RATE - 1) = SubSeq(buffer, 1, RATE - 1)
    /\ CiphertextOf(ChangedFrom(orig, RATE))[RATE + 1] # buffer[RATE + 1]


\* C26: adapter equivalence.  While a GimliHash is fed, its block buffer holds
\* the last len mod 32 of the bytes given, fewer than 32, and its hasher has
\* been given the bytes before them, in blocks of 32; finalized, it returns
\* hash of all the bytes given, however they were split in update calls, and
\* leaves a new hasher in its core.
C26_AdapterEquivalence ==
    LET n == Len(fed)
        tail == n % 32
    IN  /\ hphase = "live" =>
            /\ block_buffer.pos = tail
            /\ block_buffer.pos < 32
            /\ SubSeq(block_buffer.buffer, 1, tail) = SubSeq(fed, n - tail + 1, n)
            /\ hasher = update(target, Hasher_new, SubSeq(fed, 1, n - tail))
        /\ hphase = "finalized" =>
            /\ Len(digest) = HASH_SIZE
            /\ digest = hash(target, fed)
            /\ hasher = Hasher_new

\* a GimliHash given 33 bytes and then 32 bytes was finalized with one byte in
\* its block buffer
C26_Witness ==
    /\ hphase = "finalized"
    /\ chunks = << 33, 32 >>
    /\ block_buffer.pos = 1
    /\ block_buffer.buffer[1] = fed[65]
    /\ hasher = Hasher_new
    /\ digest = hash(target, SubSeq(AdapterCorpus, 1, 65))

=============================================================================
